---------------------------- MODULE Spec2Model ----------------------------
(***************************************************************************)
(* Model of the Fidakune proposal validation pipeline                      *)
(* (scripts/analyze_proposal.py, class ProposalAnalyzer) and of the        *)
(* lexicon graph manager (lexicon_system/lexicon.py, FidakuneLexicon).     *)
(*                                                                         *)
(* Strings are sequences of one-character strings, so that strip, lower,   *)
(* replace, split and the scanning loops of the validators are computed    *)
(* character by character as the Python code computes them.                *)
(***************************************************************************)
EXTENDS Integers, Sequences, FiniteSets, TLC

VARIABLES
    lexicon,           \* self.lexicon: word -> entry (a dict)
    valid_domains,     \* self.valid_domains
    analysis_results,  \* self.analysis_results
    fields,            \* the fields dict handed to analyze_proposal
    pc,                \* position inside analyze_proposal / the operation applied
    ran,               \* the checks entered by the running analyze_proposal call
    raised,            \* the checks of the running call in which an exception was raised
    returned_results,  \* what the callers of the earlier calls hold: the object
                       \* analyze_proposal returned to each and what it held then
    call,              \* the arguments and the result of a helper called on its own
    entries,           \* FidakuneLexicon.entries: word -> LexiconEntry (a dict)
    graph,             \* FidakuneLexicon.graph: the nodes and edges of the DiGraph
    added              \* the number of entries handed to the FidakuneLexicon so far

vars == <<lexicon, valid_domains, analysis_results, fields, pc, ran,
          raised, returned_results, call, entries, graph, added>>

-----------------------------------------------------------------------------
(* Characters and Python's str operations                                  *)

LowercaseLetters ==
    <<"a","b","c","d","e","f","g","h","i","j","k","l","m",
      "n","o","p","q","r","s","t","u","v","w","x","y","z">>

UppercaseLetters ==
    <<"A","B","C","D","E","F","G","H","I","J","K","L","M",
      "N","O","P","Q","R","S","T","U","V","W","X","Y","Z">>

Whitespace == {" ", "\t", "\n"}

UpperSet == {UppercaseLetters[i] : i \in DOMAIN UppercaseLetters}

LowerSet == {LowercaseLetters[i] : i \in DOMAIN LowercaseLetters}

IsUpper(c) == c \in UpperSet

IsLower(c) == c \in LowerSet

\* the lower-case letter of each upper-case letter
LowerOf ==
    [c \in UpperSet |->
        LowercaseLetters[CHOOSE i \in DOMAIN UppercaseLetters : UppercaseLetters[i] = c]]

\* one character of str.lower()
LowerChar(c) == IF IsUpper(c) THEN LowerOf[c] ELSE c

\* str.lower()
Lower(s) == [i \in DOMAIN s |-> LowerChar(s[i])]

\* str.strip()
RECURSIVE Strip(_)
Strip(s) ==
    IF s = <<>> THEN s
    ELSE IF Head(s) \in Whitespace THEN Strip(Tail(s))
    ELSE IF s[Len(s)] \in Whitespace THEN Strip(SubSeq(s, 1, Len(s) - 1))
    ELSE s

\* word.replace('-', '')
RemoveHyphens(s) == SelectSeq(s, LAMBDA c : c # "-")

\* '-' in word
HasHyphen(s) == \E i \in DOMAIN s : s[i] = "-"

\* '--' in word
HasDoubleHyphen(s) == \E i \in 1..(Len(s) - 1) : s[i] = "-" /\ s[i + 1] = "-"

\* word.split('-'): the parts between hyphens, empty parts included
RECURSIVE SplitHyphen(_)
SplitHyphen(s) ==
    IF ~HasHyphen(s) THEN <<s>>
    ELSE LET k == CHOOSE i \in DOMAIN s :
                      s[i] = "-" /\ \A j \in 1..(i - 1) : s[j] # "-"
         IN  <<SubSeq(s, 1, k - 1)>> \o SplitHyphen(SubSeq(s, k + 1, Len(s)))

\* re.match(r'^[a-zA-Z-]+$', word) on a stripped word
MatchesWordPattern(s) ==
    /\ s # <<>>
    /\ \A i \in DOMAIN s : IsLower(s[i]) \/ IsUpper(s[i]) \/ s[i] = "-"

\* position of each lower-case letter in the alphabet (the order sorted() uses)
LetterIndexOf ==
    [c \in LowerSet |-> CHOOSE i \in DOMAIN LowercaseLetters : LowercaseLetters[i] = c]

LetterIndex(c) == LetterIndexOf[c]

\* sorted(S) for a set of lower-case letters
RECURSIVE SortedLetters(_)
SortedLetters(S) ==
    IF S = {} THEN <<>>
    ELSE LET m == CHOOSE c \in S : \A d \in S : LetterIndex(c) <= LetterIndex(d)
         IN  <<m>> \o SortedLetters(S \ {m})

\* the orders in which iterating a Python set can yield its elements
RECURSIVE SetOrders(_)
SetOrders(S) ==
    IF S = {} THEN {<<>>}
    ELSE UNION {{<<c>> \o o : o \in SetOrders(S \ {c})} : c \in S}

\* the set of elements of a list: set(xs)
ToSet(xs) == {xs[i] : i \in DOMAIN xs}

-----------------------------------------------------------------------------
(* load_phonology: the phoneme inventory                                   *)

consonants == {"p","b","t","d","k","g","m","n","f","s","h","l","r","w","j"}

vowels == {"a","e","i","o","u"}

valid_phonemes == consonants \cup vowels

permitted_clusters == {<<"s","t">>, <<"p","l">>, <<"p","r">>, <<"t","r">>, <<"s","p">>}

\* sorted(self.valid_phonemes)
SortedValidPhonemes == SortedLetters(valid_phonemes)

-----------------------------------------------------------------------------
(* Messages: the marker the f-string starts with, the template, and the    *)
(* values interpolated into it, in order.                                  *)

Msg(marker, id, args) == [marker |-> marker, id |-> id, args |-> args]

-----------------------------------------------------------------------------
(* Phonotactic Validator                                                   *)

\* SyllableOnset with the single-consonant onset (the elif branch) left out
SyllableOnsetClusterOnly(chars, i) ==
    IF i < Len(chars) /\ chars[i] \in consonants /\ chars[i + 1] \in consonants
    THEN IF <<chars[i], chars[i + 1]>> \in permitted_clusters THEN i + 2 ELSE 0
    ELSE i

\* the result of the onset test at position i (1-based) of
\* _is_valid_syllable_sequence: the position after the onset, or 0 when the
\* two consonants at i are not a permitted cluster (return False)
SyllableOnset(chars, i) ==
    IF i < Len(chars) /\ chars[i] \in consonants /\ chars[i + 1] \in consonants
    THEN IF <<chars[i], chars[i + 1]>> \in permitted_clusters THEN i + 2 ELSE 0
    ELSE IF chars[i] \in consonants THEN i + 1
    ELSE i

\* the inner while loop of _is_valid_syllable_sequence (the coda): the
\* position at which it leaves i
RECURSIVE SyllableCoda(_, _)
SyllableCoda(chars, i) ==
    IF ~(i <= Len(chars) /\ chars[i] \in consonants) THEN i
    ELSE IF i = Len(chars) THEN i + 1
    ELSE IF chars[i + 1] \in vowels THEN i
    ELSE IF chars[i + 1] \in consonants
         THEN IF <<chars[i], chars[i + 1]>> \in permitted_clusters THEN i ELSE i + 1
    ELSE SyllableCoda(chars, i + 1)

\* SyllableLoop without the test that a vowel follows the onset
RECURSIVE SyllableLoopVowelOptional(_, _)
SyllableLoopVowelOptional(chars, i) ==
    IF i > Len(chars) THEN TRUE
    ELSE LET j == SyllableOnset(chars, i)
         IN  IF j = 0 THEN FALSE
             ELSE IF j > Len(chars) THEN TRUE
             ELSE IF chars[j] \notin vowels THEN j > i /\ SyllableLoopVowelOptional(chars, j)
             ELSE SyllableLoopVowelOptional(chars, SyllableCoda(chars, j + 1))

\* the outer while loop of _is_valid_syllable_sequence from position i
RECURSIVE SyllableLoop(_, _)
SyllableLoop(chars, i) ==
    IF i > Len(chars) THEN TRUE
    ELSE LET j == SyllableOnset(chars, i)
         IN  IF j = 0 THEN FALSE
             ELSE IF j > Len(chars) \/ chars[j] \notin vowels THEN FALSE
             ELSE SyllableLoop(chars, SyllableCoda(chars, j + 1))

_is_valid_syllable_sequence(word_part) ==
    IF word_part = <<>> THEN FALSE
    ELSE SyllableLoop(Lower(word_part), 1)

\* the loop over the parts in _validate_hyphen_usage, from part k
RECURSIVE HyphenParts(_, _)
HyphenParts(parts, k) ==
    IF k > Len(parts) THEN [valid |-> TRUE, id |-> "", args |-> <<>>]
    ELSE IF parts[k] = <<>>
         THEN [valid |-> FALSE, id |-> "empty_word_part", args |-> <<>>]
    ELSE IF ~_is_valid_syllable_sequence(parts[k])
         THEN [valid |-> FALSE, id |-> "invalid_syllable_in_part", args |-> <<parts[k]>>]
    ELSE HyphenParts(parts, k + 1)

_validate_hyphen_usage(word) ==
    IF HasDoubleHyphen(word)
    THEN [valid |-> FALSE, id |-> "consecutive_hyphens", args |-> <<>>]
    ELSE IF Head(word) = "-" \/ word[Len(word)] = "-"
    THEN [valid |-> FALSE, id |-> "hyphen_at_boundary", args |-> <<>>]
    ELSE LET parts == SplitHyphen(word)
         IN  IF Len(parts) < 2
             THEN [valid |-> FALSE, id |-> "fewer_than_two_parts", args |-> <<>>]
             ELSE HyphenParts(parts, 1)

\* the loop over the parts in _validate_syllable_structure, from part k
RECURSIVE SyllableParts(_, _)
SyllableParts(parts, k) ==
    IF k > Len(parts) THEN [valid |-> TRUE, id |-> "", args |-> <<>>]
    ELSE IF ~_is_valid_syllable_sequence(Lower(parts[k]))
         THEN [valid |-> FALSE, id |-> "invalid_syllable_structure", args |-> <<parts[k]>>]
    ELSE SyllableParts(parts, k + 1)

_validate_syllable_structure(word) == SyllableParts(SplitHyphen(word), 1)

\* the end of the run of consonants starting at i: the first position after it
RECURSIVE ConsonantRunEnd(_, _)
ConsonantRunEnd(part, i) ==
    IF i <= Len(part) /\ part[i] \in consonants THEN ConsonantRunEnd(part, i + 1) ELSE i

\* sorted(S) for a set of two-letter strings
RECURSIVE SortedClusters(_)
SortedClusters(S) ==
    IF S = {} THEN <<>>
    ELSE LET m == CHOOSE c \in S : \A d \in S :
                      \/ LetterIndex(c[1]) < LetterIndex(d[1])
                      \/ c[1] = d[1] /\ LetterIndex(c[2]) <= LetterIndex(d[2])
         IN  <<m>> \o SortedClusters(S \ {m})

\* sorted(self.permitted_clusters)
SortedPermittedClusters == SortedClusters(permitted_clusters)

\* ClusterScan without the test of the cluster's position
RECURSIVE ClusterScanNoPositionTest(_, _, _)
ClusterScanNoPositionTest(part, part_idx, i) ==
    IF i > Len(part) THEN [valid |-> TRUE, id |-> "", args |-> <<>>, warning |-> FALSE]
    ELSE IF part[i] \in consonants
    THEN LET e == ConsonantRunEnd(part, i)
             cluster == SubSeq(part, i, e - 1)
         IN  IF e - i > 1
             THEN IF Len(cluster) > 2
                  THEN [valid |-> FALSE, id |-> "cluster_too_long",
                        args |-> <<cluster>>, warning |-> FALSE]
                  ELSE IF cluster \notin permitted_clusters
                  THEN [valid |-> FALSE, id |-> "cluster_not_permitted",
                        args |-> <<cluster, SortedPermittedClusters>>,
                        warning |-> FALSE]
                  ELSE ClusterScanNoPositionTest(part, part_idx, e)
             ELSE ClusterScanNoPositionTest(part, part_idx, e)
    ELSE ClusterScanNoPositionTest(part, part_idx, i + 1)

\* ClusterScan rejecting a cluster at the start of any part, not only the first
RECURSIVE ClusterScanAnyPartStart(_, _, _)
ClusterScanAnyPartStart(part, part_idx, i) ==
    IF i > Len(part) THEN [valid |-> TRUE, id |-> "", args |-> <<>>, warning |-> FALSE]
    ELSE IF part[i] \in consonants
    THEN LET e == ConsonantRunEnd(part, i)
             cluster == SubSeq(part, i, e - 1)
         IN  IF e - i > 1
             THEN IF Len(cluster) > 2
                  THEN [valid |-> FALSE, id |-> "cluster_too_long",
                        args |-> <<cluster>>, warning |-> FALSE]
                  ELSE IF cluster \notin permitted_clusters
                  THEN [valid |-> FALSE, id |-> "cluster_not_permitted",
                        args |-> <<cluster, SortedPermittedClusters>>,
                        warning |-> FALSE]
                  ELSE IF i = 1
                  THEN [valid |-> FALSE, id |-> "cluster_at_word_beginning",
                        args |-> <<cluster>>, warning |-> FALSE]
                  ELSE ClusterScanAnyPartStart(part, part_idx, e)
             ELSE ClusterScanAnyPartStart(part, part_idx, e)
    ELSE ClusterScanAnyPartStart(part, part_idx, i + 1)

\* the scan of one part in _validate_consonant_clusters, from position i
\* (1-based); part_idx is 0-based as in the code
RECURSIVE ClusterScan(_, _, _)
ClusterScan(part, part_idx, i) ==
    IF i > Len(part) THEN [valid |-> TRUE, id |-> "", args |-> <<>>, warning |-> FALSE]
    ELSE IF part[i] \in consonants
    THEN LET e == ConsonantRunEnd(part, i)
             cluster == SubSeq(part, i, e - 1)
         IN  IF e - i > 1
             THEN IF Len(cluster) > 2
                  THEN [valid |-> FALSE, id |-> "cluster_too_long",
                        args |-> <<cluster>>, warning |-> FALSE]
                  ELSE IF cluster \notin permitted_clusters
                  THEN [valid |-> FALSE, id |-> "cluster_not_permitted",
                        args |-> <<cluster, SortedPermittedClusters>>,
                        warning |-> FALSE]
                  ELSE IF i = 1 /\ part_idx = 0
                  THEN [valid |-> FALSE, id |-> "cluster_at_word_beginning",
                        args |-> <<cluster>>, warning |-> FALSE]
                  ELSE ClusterScan(part, part_idx, e)
             ELSE ClusterScan(part, part_idx, e)
    ELSE ClusterScan(part, part_idx, i + 1)

\* the loop over the parts in _validate_consonant_clusters, from part k
RECURSIVE ClusterParts(_, _)
ClusterParts(parts, k) ==
    IF k > Len(parts) THEN [valid |-> TRUE, id |-> "", args |-> <<>>, warning |-> FALSE]
    ELSE LET r == ClusterScan(Lower(parts[k]), k - 1, 1)
         IN  IF ~r.valid THEN r ELSE ClusterParts(parts, k + 1)

_validate_consonant_clusters(word) == ClusterParts(SplitHyphen(word), 1)

\* step 1 of _analyze_phonotactics_basic: the characters of the word, hyphens
\* removed and lower-cased, that are no phoneme, in order of occurrence
InvalidPhonemes(word) ==
    SelectSeq(Lower(RemoveHyphens(word)), LAMBDA c : c \notin valid_phonemes)

\* PhonemeMessages joining the list invalid_phonemes itself, not its set
PhonemeMessagesNoSet(word, order) ==
    IF InvalidPhonemes(word) # <<>>
    THEN <<Msg("FAIL", "invalid_phonemes", <<InvalidPhonemes(word)>>),
           Msg("NONE", "valid_phonemes_list", <<SortedValidPhonemes>>)>>
    ELSE <<Msg("PASS", "all_phonemes_valid", <<>>)>>

\* the messages of step 1, for one iteration order of set(invalid_phonemes)
PhonemeMessages(word, order) ==
    IF InvalidPhonemes(word) # <<>>
    THEN <<Msg("FAIL", "invalid_phonemes", <<order>>),
           Msg("NONE", "valid_phonemes_list", <<SortedValidPhonemes>>)>>
    ELSE <<Msg("PASS", "all_phonemes_valid", <<>>)>>

\* the messages of step 2 (run only for a word with a hyphen)
HyphenMessages(word) ==
    IF ~HasHyphen(word) THEN <<>>
    ELSE LET hyphen_valid == _validate_hyphen_usage(word)
         IN  IF ~hyphen_valid.valid
             THEN <<Msg("FAIL", hyphen_valid.id, hyphen_valid.args)>>
             ELSE <<Msg("PASS", "hyphen_placement_correct", <<>>)>>

\* the message of step 3
SyllableMessages(word) ==
    LET syllable_valid == _validate_syllable_structure(word)
    IN  IF ~syllable_valid.valid
        THEN <<Msg("FAIL", syllable_valid.id, syllable_valid.args)>>
        ELSE <<Msg("PASS", "syllable_structure_ok", <<>>)>>

\* ClusterMessages with no message for valid clusters
ClusterMessagesFailureOnly(word) ==
    LET cluster_valid == _validate_consonant_clusters(word)
    IN  IF ~cluster_valid.valid
        THEN IF cluster_valid.warning
             THEN <<Msg("WARNING", cluster_valid.id, cluster_valid.args)>>
             ELSE <<Msg("FAIL", cluster_valid.id, cluster_valid.args)>>
        ELSE <<>>

\* the message of step 4
ClusterMessages(word) ==
    LET cluster_valid == _validate_consonant_clusters(word)
    IN  IF ~cluster_valid.valid
        THEN IF cluster_valid.warning
             THEN <<Msg("WARNING", cluster_valid.id, cluster_valid.args)>>
             ELSE <<Msg("FAIL", cluster_valid.id, cluster_valid.args)>>
        ELSE <<Msg("PASS", "clusters_valid", <<>>)>>

\* PhonotacticStatus with a cluster failure reported as a warning
PhonotacticStatusClusterWarning(word) ==
    LET s1 == IF InvalidPhonemes(word) # <<>> THEN "FAIL" ELSE "PASS"
        s2 == IF HasHyphen(word) /\ ~_validate_hyphen_usage(word).valid THEN "FAIL" ELSE s1
        s3 == IF ~_validate_syllable_structure(word).valid THEN "FAIL" ELSE s2
        cluster_valid == _validate_consonant_clusters(word)
    IN  IF ~cluster_valid.valid
        THEN IF s3 = "PASS" THEN "WARNING" ELSE s3
        ELSE s3

\* the status _analyze_phonotactics_basic ends with: PASS, set to FAIL by a
\* failing step, and to WARNING by a cluster warning while still PASS
PhonotacticStatus(word) ==
    LET s1 == IF InvalidPhonemes(word) # <<>> THEN "FAIL" ELSE "PASS"
        s2 == IF HasHyphen(word) /\ ~_validate_hyphen_usage(word).valid THEN "FAIL" ELSE s1
        s3 == IF ~_validate_syllable_structure(word).valid THEN "FAIL" ELSE s2
        cluster_valid == _validate_consonant_clusters(word)
    IN  IF ~cluster_valid.valid
        THEN IF cluster_valid.warning
             THEN IF s3 = "PASS" THEN "WARNING" ELSE s3
             ELSE "FAIL"
        ELSE s3

\* the outcomes of the try block of _analyze_phonotactics_basic: one for each
\* order in which ', '.join(set(invalid_phonemes)) can list the characters
_analyze_phonotactics_basic(word) ==
    {[status   |-> PhonotacticStatus(word),
      messages |-> PhonemeMessages(word, order) \o HyphenMessages(word)
                   \o SyllableMessages(word) \o ClusterMessages(word)]
     : order \in SetOrders(ToSet(InvalidPhonemes(word)))}

-----------------------------------------------------------------------------
(* Python dicts are functions; a text other than a word is a sequence of   *)
(* whitespace characters and whitespace-free chunks such as "Emotion".     *)

\* d.get(key, default)
Get(d, key, default) == IF key \in DOMAIN d THEN d[key] ELSE default

\* the value used for a fields argument that is no dict
NotADict == [py_type |-> "NoneType"]

\* isinstance(fields, dict)
IsDict(v) == "py_type" \notin DOMAIN v

\* self.lexicon is kept as the list of its (key, entry) items in insertion
\* order, which is the order .items() iterates in
LexiconKeys(lex) == {lex[i].key : i \in DOMAIN lex}

\* self.lexicon[word]
LexiconEntry(lex, word) == lex[CHOOSE i \in DOMAIN lex : lex[i].key = word].entry

\* self.lexicon[word] = entry: a new key is appended, an old key keeps its place
LexiconPut(lex, word, entry) ==
    IF word \in LexiconKeys(lex)
    THEN [i \in DOMAIN lex |->
            IF lex[i].key = word THEN [key |-> word, entry |-> entry] ELSE lex[i]]
    ELSE Append(lex, [key |-> word, entry |-> entry])

\* the loop of load_lexicon over lexicon_data, from entry i: the lexicon and
\* the domains it leaves (an entry without a word is skipped)
RECURSIVE LoadEntries(_, _, _, _)
LoadEntries(lexicon_data, i, lex, domains) ==
    IF i > Len(lexicon_data) THEN [lexicon |-> lex, valid_domains |-> domains]
    ELSE LET entry  == lexicon_data[i]
             word   == Get(entry, "word", <<>>)
             domain == Get(entry, "domain", <<>>)
         IN  IF word = <<>>
             THEN LoadEntries(lexicon_data, i + 1, lex, domains)
             ELSE LoadEntries(lexicon_data, i + 1, LexiconPut(lex, word, entry),
                              IF domain # <<>> THEN domains \cup {domain} ELSE domains)

load_lexicon(lexicon_data) == LoadEntries(lexicon_data, 1, <<>>, {})

-----------------------------------------------------------------------------
(* Lexicon Consistency Checker                                             *)

Unknown == <<"unknown">>

\* VerifyRoots looking the roots up from the last to the first
RECURSIVE VerifyRootsFromTheRight(_, _, _, _)
VerifyRootsFromTheRight(lex, roots, k, success_messages) ==
    IF k > Len(roots) THEN [valid |-> TRUE, id |-> "", args |-> <<>>,
                            messages |-> success_messages]
    ELSE LET root == roots[Len(roots) + 1 - k]
         IN  IF root \notin LexiconKeys(lex)
             THEN [valid |-> FALSE, id |-> "root_not_found", args |-> <<root>>,
                   messages |-> <<>>]
             ELSE LET root_entry == LexiconEntry(lex, root)
                      root_def == Get(root_entry, "definition", Unknown)
                      root_domain == Get(root_entry, "domain", Unknown)
                  IN  VerifyRootsFromTheRight(lex, roots, k + 1,
                          <<Msg("PASS", "root_exists", <<root, root_domain, root_def>>)>>
                          \o success_messages)

\* the loop of _verify_compound_roots over the roots, from root k
RECURSIVE VerifyRoots(_, _, _, _)
VerifyRoots(lex, roots, k, success_messages) ==
    IF k > Len(roots) THEN [valid |-> TRUE, id |-> "", args |-> <<>>,
                            messages |-> success_messages]
    ELSE IF roots[k] \notin LexiconKeys(lex)
    THEN [valid |-> FALSE, id |-> "root_not_found", args |-> <<roots[k]>>,
          messages |-> <<>>]
    ELSE LET root_entry == LexiconEntry(lex, roots[k])
             root_def == Get(root_entry, "definition", Unknown)
             root_domain == Get(root_entry, "domain", Unknown)
         IN  VerifyRoots(lex, roots, k + 1,
                 Append(success_messages,
                        Msg("PASS", "root_exists", <<roots[k], root_domain, root_def>>)))

_verify_compound_roots(lex, compound_word) ==
    VerifyRoots(lex, SplitHyphen(compound_word), 1, <<>>)

\* root_domains of _check_compound_domain_consistency: the domains of the
\* roots that are in the lexicon, in order
RECURSIVE RootDomains(_, _, _)
RootDomains(lex, roots, k) ==
    IF k > Len(roots) THEN <<>>
    ELSE IF roots[k] \in LexiconKeys(lex)
    THEN <<Get(LexiconEntry(lex, roots[k]), "domain", Unknown)>>
         \o RootDomains(lex, roots, k + 1)
    ELSE RootDomains(lex, roots, k + 1)

\* domain_combinations
domain_combinations ==
    [d \in {<<"Emotion">>, <<"Action">>, <<"Quality">>} |->
        CASE d = <<"Emotion">> -> {<<"Body">>, <<"Nature">>, <<"Quality">>}
          [] d = <<"Action">>  -> {<<"Body">>, <<"Object">>, <<"Nature">>}
          [] d = <<"Quality">> -> {<<"Nature">>, <<"Object">>, <<"Body">>}]

_check_compound_domain_consistency(lex, compound_word, proposed_domain) ==
    LET root_domains == RootDomains(lex, SplitHyphen(compound_word), 1)
    IN  IF proposed_domain \in ToSet(root_domains)
        THEN [consistent |-> TRUE,
              message |-> Msg("PASS", "domain_consistent", <<proposed_domain, root_domains>>)]
        ELSE IF /\ proposed_domain \in DOMAIN domain_combinations
                /\ \E i \in DOMAIN root_domains :
                       root_domains[i] \in domain_combinations[proposed_domain]
        THEN [consistent |-> TRUE,
              message |-> Msg("PASS", "domain_compatible", <<proposed_domain, root_domains>>)]
        ELSE [consistent |-> FALSE,
              message |-> Msg("WARNING", "domain_may_not_be_consistent",
                              <<proposed_domain, root_domains>>)]

\* step 1 of _analyze_lexicon_basic: the duplicate check
LexiconDuplicate(lex, word) ==
    IF word \in LexiconKeys(lex)
    THEN [status |-> "FAIL",
          messages |-> <<Msg("FAIL", "word_already_exists",
                             <<word, Get(LexiconEntry(lex, word), "definition", Unknown)>>)>>]
    ELSE [status |-> "PASS",
          messages |-> <<Msg("PASS", "word_not_in_lexicon", <<word>>)>>]

\* LexiconRoots assigning PASS when the roots exist, whatever step 1 found
LexiconRootsResetStatus(lex, word, r) ==
    IF ~HasHyphen(word) THEN r
    ELSE LET compound_valid == _verify_compound_roots(lex, word)
         IN  IF ~compound_valid.valid
             THEN [status |-> "FAIL",
                   messages |-> Append(r.messages,
                       Msg("FAIL", compound_valid.id, compound_valid.args))]
             ELSE [status |-> "PASS",
                   messages |-> r.messages \o compound_valid.messages]

\* step 2 of _analyze_lexicon_basic, from the outcome r of step 1
LexiconRoots(lex, word, r) ==
    IF ~HasHyphen(word) THEN r
    ELSE LET compound_valid == _verify_compound_roots(lex, word)
         IN  IF ~compound_valid.valid
             THEN [status |-> "FAIL",
                   messages |-> Append(r.messages,
                       Msg("FAIL", compound_valid.id, compound_valid.args))]
             ELSE [status |-> r.status,
                   messages |-> r.messages \o compound_valid.messages]

\* LexiconDomain without the test that the earlier steps did not fail
LexiconDomainNoFailTest(lex, word, domain, r) ==
    IF ~HasHyphen(word) THEN r
    ELSE LET domain_check == _check_compound_domain_consistency(lex, word, domain)
         IN  IF ~domain_check.consistent
             THEN [status |-> IF r.status = "PASS" THEN "WARNING" ELSE r.status,
                   messages |-> Append(r.messages, domain_check.message)]
             ELSE [status |-> r.status,
                   messages |-> Append(r.messages, domain_check.message)]

\* step 3 of _analyze_lexicon_basic, from the outcome r of step 2
LexiconDomain(lex, word, domain, r) ==
    IF ~(HasHyphen(word) /\ r.status # "FAIL") THEN r
    ELSE LET domain_check == _check_compound_domain_consistency(lex, word, domain)
         IN  IF ~domain_check.consistent
             THEN [status |-> IF r.status = "PASS" THEN "WARNING" ELSE r.status,
                   messages |-> Append(r.messages, domain_check.message)]
             ELSE [status |-> r.status,
                   messages |-> Append(r.messages, domain_check.message)]

\* the outcome of the try block of _analyze_lexicon_basic
_analyze_lexicon_basic(lex, word, domain) ==
    LexiconDomain(lex, word, domain, LexiconRoots(lex, word, LexiconDuplicate(lex, word)))

-----------------------------------------------------------------------------
(* Homophone Detector                                                      *)

\* pronunciation_map.get(char, char); "U+027E" stands for the one character
\* U+027E (the alveolar tap), which is no ASCII letter
PronunciationChar(c) ==
    IF c = "r" THEN "U+027E" ELSE IF c = "j" THEN "y" ELSE c

_generate_pronunciation(word) ==
    LET clean_word == Lower(RemoveHyphens(word))
    IN  [i \in DOMAIN clean_word |-> PronunciationChar(clean_word[i])]

\* Min3 leaving the third argument, the substitution, out
Min3WithoutThird(a, b, c) == IF a <= b THEN a ELSE b

Min3(a, b, c) == IF a <= b /\ a <= c THEN a ELSE IF b <= c THEN b ELSE c

\* the inner loop of _levenshtein_distance: current_row completed for c1
RECURSIVE LevCurrentRow(_, _, _, _)
LevCurrentRow(c1, s2, previous_row, current_row) ==
    IF Len(current_row) = Len(s2) + 1 THEN current_row
    ELSE LET j == Len(current_row)      \* c2 = s2[j]
             insertions == previous_row[j + 1] + 1
             deletions == current_row[j] + 1
             substitutions == previous_row[j] + (IF c1 # s2[j] THEN 1 ELSE 0)
         IN  LevCurrentRow(c1, s2, previous_row,
                           Append(current_row, Min3(insertions, deletions, substitutions)))

\* the outer loop of _levenshtein_distance, from character i of s1
\* (the test on current_row has the row computed before the next iteration starts)
RECURSIVE LevRows(_, _, _, _)
LevRows(s1, s2, i, previous_row) ==
    IF i > Len(s1) THEN previous_row[Len(previous_row)]
    ELSE LET current_row == LevCurrentRow(s1[i], s2, previous_row, <<i>>)
         IN  IF Len(current_row) = Len(s2) + 1
             THEN LevRows(s1, s2, i + 1, current_row)
             ELSE -1

RECURSIVE _levenshtein_distance(_, _)
_levenshtein_distance(s1, s2) ==
    IF Len(s1) < Len(s2) THEN _levenshtein_distance(s2, s1)
    ELSE IF Len(s2) = 0 THEN Len(s1)
    ELSE LevRows(s1, s2, 1, [j \in 1..(Len(s2) + 1) |-> j - 1])

Abs(n) == IF n < 0 THEN 0 - n ELSE n

Max(a, b) == IF a >= b THEN a ELSE b

\* _calculate_pronunciation_similarity dividing by the length of the first
\* pronunciation
_calculate_pronunciation_similarity_first_length(pron1, pron2) ==
    IF pron1 = <<>> \/ pron2 = <<>> THEN [num |-> 0, den |-> 1]
    ELSE LET distance == _levenshtein_distance(pron1, pron2)
             max_len == Len(pron1)
             length_diff == Abs(Len(pron1) - Len(pron2))
             base == 10 * max_len - 10 * distance
             boosted == IF length_diff <= 1 THEN base + max_len ELSE base
         IN  [num |-> IF boosted > 10 * max_len THEN 10 * max_len ELSE boosted,
              den |-> 10 * max_len]

\* A similarity is the fraction num / den.  The code computes it in floating
\* point; for all lengths up to 60 the comparisons with 0.6 and 0.9 agree
\* with the exact fraction.
_calculate_pronunciation_similarity(pron1, pron2) ==
    IF pron1 = <<>> \/ pron2 = <<>> THEN [num |-> 0, den |-> 1]
    ELSE LET distance == _levenshtein_distance(pron1, pron2)
             max_len == Max(Len(pron1), Len(pron2))
             length_diff == Abs(Len(pron1) - Len(pron2))
             \* 1.0 - distance / max_len, in units of 1 / (10 * max_len)
             base == 10 * max_len - 10 * distance
             boosted == IF length_diff <= 1 THEN base + max_len ELSE base
         IN  [num |-> IF boosted > 10 * max_len THEN 10 * max_len ELSE boosted,
              den |-> 10 * max_len]

\* SimGreater with >= for >
SimGreaterOrEqual(sim, tenths) == 10 * sim.num >= tenths * sim.den

\* similarity > tenths / 10
SimGreater(sim, tenths) == 10 * sim.num > tenths * sim.den

\* x['similarity'] > y['similarity']
SimAbove(x, y) == x.num * y.den > y.num * x.den

\* list.sort(key=similarity, reverse=True): stable, so entries of equal
\* similarity keep their order; w is inserted into the sorted list xs
RECURSIVE InsertBySimilarity(_, _)
InsertBySimilarity(xs, w) ==
    IF xs = <<>> THEN <<w>>
    ELSE IF SimAbove(w.similarity, Head(xs).similarity) THEN <<w>> \o xs
    ELSE <<Head(xs)>> \o InsertBySimilarity(Tail(xs), w)

RECURSIVE SortBySimilarity(_, _)
SortBySimilarity(xs, sorted) ==
    IF xs = <<>> THEN sorted
    ELSE SortBySimilarity(Tail(xs), InsertBySimilarity(sorted, Head(xs)))

\* the loop of _find_similar_pronunciations over self.lexicon.items(), from item i
RECURSIVE SimilarFrom(_, _, _, _)
SimilarFrom(lex, proposed_word, proposed_pronunciation, i) ==
    IF i > Len(lex) THEN <<>>
    ELSE LET existing_word == lex[i].key
             existing_pronunciation == _generate_pronunciation(existing_word)
             similarity == _calculate_pronunciation_similarity(
                               proposed_pronunciation, existing_pronunciation)
             rest == SimilarFrom(lex, proposed_word, proposed_pronunciation, i + 1)
         IN  IF existing_word = proposed_word THEN rest
             ELSE IF SimGreater(similarity, 6)
             THEN <<[word |-> existing_word,
                     definition |-> Get(lex[i].entry, "definition", Unknown),
                     pronunciation |-> existing_pronunciation,
                     similarity |-> similarity]>> \o rest
             ELSE rest

_find_similar_pronunciations(lex, proposed_word, proposed_pronunciation) ==
    SortBySimilarity(SimilarFrom(lex, proposed_word, proposed_pronunciation, 1), <<>>)

\* similar_words[:3]
FirstThree(xs) == SubSeq(xs, 1, IF Len(xs) < 3 THEN Len(xs) ELSE 3)

\* the outcome of the try block of _analyze_homophones; the report prints a
\* listed similarity with two decimals, the message holds the similarity
_analyze_homophones(lex, word) ==
    LET proposed_pronunciation == _generate_pronunciation(word)
        similar_words == _find_similar_pronunciations(lex, word, proposed_pronunciation)
    IN  IF similar_words # <<>>
        THEN IF Len(similar_words) = 1 /\ SimGreater(similar_words[1].similarity, 9)
             THEN [status |-> "WARNING",
                   messages |-> <<Msg("WARNING", "very_similar_pronunciation",
                       <<similar_words[1].word, similar_words[1].definition>>)>>]
             ELSE [status |-> "WARNING",
                   messages |-> <<Msg("WARNING", "similar_pronunciation_header", <<>>)>> \o
                       [k \in DOMAIN FirstThree(similar_words) |->
                           Msg("NONE", "similar_word",
                               <<similar_words[k].word, similar_words[k].definition,
                                 similar_words[k].similarity>>)]]
        ELSE [status |-> "PASS",
              messages |-> <<Msg("PASS", "no_pronunciation_conflicts", <<>>)>>]

-----------------------------------------------------------------------------
(* Semantic Checker                                                        *)

\* the outcome of the try block of _analyze_semantics_basic: status is
\* assigned, not merged, by each of the three tests in turn
_analyze_semantics_basic(domains, definition, domain, justification) ==
    LET s1 == IF domain \notin domains THEN "FAIL" ELSE "PASS"
        m1 == IF domain \notin domains
              THEN Msg("FAIL", "invalid_semantic_domain", <<domain>>)
              ELSE Msg("PASS", "semantic_domain_valid", <<domain>>)
        s2 == IF definition = <<>> THEN "FAIL" ELSE s1
        m2 == IF definition = <<>>
              THEN Msg("FAIL", "no_definition", <<>>)
              ELSE Msg("PASS", "definition_provided", <<>>)
        s3 == IF justification = <<>> THEN "WARNING" ELSE s2
        m3 == IF justification = <<>>
              THEN Msg("WARNING", "no_justification", <<>>)
              ELSE Msg("PASS", "justification_provided", <<>>)
    IN  [status |-> s3, messages |-> <<m1, m2, m3>>]

-----------------------------------------------------------------------------
(* Recommendation Aggregator and the result object                         *)

Sections == <<"phonotactics", "lexicon", "homophones", "semantics">>

SectionSet == ToSet(Sections)

\* the analysis_results dict __init__ builds
FreshResults ==
    [phonotactics   |-> [status |-> "PENDING", messages |-> <<>>],
     lexicon        |-> [status |-> "PENDING", messages |-> <<>>],
     homophones     |-> [status |-> "PENDING", messages |-> <<>>],
     semantics      |-> [status |-> "PENDING", messages |-> <<>>],
     recommendation |-> "PENDING"]

\* the number of sections of results whose status is st
CountStatus(results, st) == Cardinality({sec \in SectionSet : results[sec].status = st})

\* _generate_recommendation without the branch for one or two warnings
_generate_recommendation_many_warnings_only(results) ==
    LET fail_count == CountStatus(results, "FAIL")
        error_count == CountStatus(results, "ERROR")
        warning_count == CountStatus(results, "WARNING")
    IN  IF error_count > 0 THEN "ERROR"
        ELSE IF fail_count > 0 THEN "REJECT"
        ELSE IF warning_count > 2 THEN "REVIEW"
        ELSE "APPROVE"

\* the recommendation _generate_recommendation stores
_generate_recommendation(results) ==
    LET fail_count == CountStatus(results, "FAIL")
        error_count == CountStatus(results, "ERROR")
        warning_count == CountStatus(results, "WARNING")
    IN  IF error_count > 0 THEN "ERROR"
        ELSE IF fail_count > 0 THEN "REJECT"
        ELSE IF warning_count > 2 THEN "REVIEW"
        ELSE IF warning_count > 0 THEN "REVIEW"
        ELSE "APPROVE"

\* the analysis_results _set_critical_error leaves
_set_critical_error(message) ==
    [phonotactics   |-> [status |-> "ERROR", messages |-> <<message>>],
     lexicon        |-> [status |-> "ERROR", messages |-> <<message>>],
     homophones     |-> [status |-> "ERROR", messages |-> <<message>>],
     semantics      |-> [status |-> "ERROR", messages |-> <<message>>],
     recommendation |-> "ERROR"]

\* the except clause of a check keeping the status it finds
AnalysisFailedKeepsStatus(results, section) ==
    [results EXCEPT ![section] =
        [status |-> @.status,
         messages |-> Append(@.messages, Msg("ERROR", "check_failed", <<section>>))]]

\* the except clause of _analyze_phonotactics_basic, _analyze_lexicon_basic,
\* _analyze_homophones and _analyze_semantics_basic: the status becomes
\* ERROR and the error message is appended to the messages the section holds
AnalysisFailed(results, section) ==
    [results EXCEPT ![section] =
        [status |-> "ERROR",
         messages |-> Append(@.messages, Msg("ERROR", "check_failed", <<section>>))]]

\* _handle_analysis_error: the error message replaces the section's messages
_handle_analysis_error(results, section) ==
    [results EXCEPT ![section] =
        [status |-> "ERROR",
         messages |-> <<Msg("ERROR", "analysis_failed", <<>>)>>]]

-----------------------------------------------------------------------------
(* Bounds and inputs                                                       *)

\* the longest word the pre-analysis gate lets through
MaxWordChars == 50

\* longest word proposed to the whole pipeline, beside the two long words
MaxWordLen == 3

\* longest word given to the phonotactic validator alone
MaxPhonLen == 5

SeqsUpTo(S, n) == UNION {[1..k -> S] : k \in 0..n}

\* a lower- and an upper-case vowel, a consonant, the hyphen, a character
\* that is no letter, and a whitespace character
PipelineAlphabet == {"a", "A", "t", "-", "1", " "}

\* words just at and just over the length limit
LongWords == {[i \in 1..n |-> "a"] : n \in {MaxWordChars, MaxWordChars + 1}}

PipelineWords == SeqsUpTo(PipelineAlphabet, MaxWordLen) \cup LongWords

\* a vowel, two consonants that form a permitted cluster in one order only,
\* an upper-case consonant, two letters outside the inventory, the hyphen
PhonAlphabet == {"a", "s", "t", "S", "x", "q", "-"}

PhonWords == SeqsUpTo(PhonAlphabet, MaxPhonLen) \ {<<>>}

\* absent, blank, and given
Definitions == {<<>>, <<" ">>, <<"d">>}

Justifications == {<<>>, <<"j">>}

\* a domain of the lexicon, a domain of the compatibility table, and a
\* domain of neither
ProposedDomains == {<<"Emotion">>, <<"Quality">>, <<"Technology">>}

\* the fields dicts handed to analyze_proposal: complete ones, one without
\* the word key, and a value that is no dict
FieldInputs ==
    [word : PipelineWords, definition : Definitions,
     domain : ProposedDomains, justification : Justifications]
    \cup {[definition |-> <<"d">>, domain |-> <<"Emotion">>, justification |-> <<"j">>]}
    \cup {NotADict}

\* the contents of lexicon_enhanced.json the analyzer is loaded from: roots
\* and a compound; entries lacking fields, a repeated word and an entry
\* without a word; a word of hyphens alone, which the loader does not turn
\* away; and the empty list
LexiconFiles ==
    { << [word |-> <<"a">>, definition |-> <<"love">>, domain |-> <<"Emotion">>],
         [word |-> <<"t","a">>, definition |-> <<"stone">>, domain |-> <<"Nature">>],
         [word |-> <<"a","-","a">>, definition |-> <<"devotion">>, domain |-> <<"Emotion">>] >>,
      << [word |-> <<"a","a">>, definition |-> <<"water">>],
         [definition |-> <<"nameless">>, domain |-> <<"Object">>],
         [word |-> <<"t">>, domain |-> <<"Quality">>],
         [word |-> <<"a","a">>, definition |-> <<"river">>, domain |-> <<"Emotion">>] >>,
      << [word |-> <<"-","-">>, definition |-> <<"pause">>, domain |-> <<"Emotion">>] >>,
      << >> }

StatusValues == {"PENDING", "PASS", "WARNING", "FAIL", "ERROR"}

\* longest word whose pronunciation is compared on its own
MaxSimLen == 3

\* a vowel, a letter the pronunciation map rewrites, the hyphen
SimilarityAlphabet == {"a", "r", "-"}

\* longest sequence given to the edit distance on its own
MaxLevLen == 3

LevenshteinAlphabet == {"a", "t"}

\* longest word given to the homophone detector alone
MaxHomLen == 3

\* a vowel in both cases, a consonant, a letter the pronunciation map
\* rewrites, the hyphen
HomophoneAlphabet == {"a", "A", "t", "r", "-"}

\* the lexicons the homophone detector is run against: one with five words
\* one edit or none away from "aaa" and three around "ta", the closest
\* entered last; one with a single word around "ta"
HomophoneLexiconFiles ==
    { << [word |-> <<"a","a">>, definition |-> <<"water">>, domain |-> <<"Nature">>],
         [word |-> <<"a","t","a">>, definition |-> <<"father">>, domain |-> <<"Body">>],
         [word |-> <<"t","a","a">>, domain |-> <<"Nature">>],
         [word |-> <<"a","a","t">>, definition |-> <<"tree">>, domain |-> <<"Nature">>],
         [word |-> <<"t","a">>, definition |-> <<"stone">>, domain |-> <<"Nature">>],
         [word |-> <<"a","-","a","a">>, definition |-> <<"lake">>, domain |-> <<"Nature">>] >>,
      << [word |-> <<"t","a">>, definition |-> <<"stone">>, domain |-> <<"Nature">>],
         [word |-> <<"r","a","r","a">>, definition |-> <<"bird">>, domain |-> <<"Nature">>] >> }

\* a few proposals: a root, a compound, a word at similarity 0.6 to "ta", a
\* hyphen-only word, a word the gate rejects, and no word
SampleInputs ==
    [word : {<<"a">>, <<"t", "-", "a">>, <<"a", "a">>, <<"-">>, <<"1">>, <<>>},
     definition : {<<"d">>},
     domain : {<<"Emotion">>, <<"Technology">>},
     justification : {<<>>, <<"j">>}]

\* the number of proposals one analyzer is given in a row
MaxCalls == 2

\* no helper is being called on its own
NoCall == [op |-> "none"]

-----------------------------------------------------------------------------
(* analyze_proposal, one action per step                                   *)

\* the local variables of analyze_proposal, read from fields
word == Strip(Get(fields, "word", <<>>))

definition == Strip(Get(fields, "definition", <<>>))

domain == Strip(Get(fields, "domain", <<>>))

justification == Strip(Get(fields, "justification", <<>>))

\* GateError without the test of the word's characters
GateErrorNoCharacterTest(f) ==
    IF ~IsDict(f) THEN "invalid_fields"
    ELSE LET w == Strip(Get(f, "word", <<>>))
         IN  IF w = <<>> THEN "no_word"
             ELSE IF Len(w) > MaxWordChars THEN "word_too_long"
             ELSE ""

\* GateError rejecting a word of exactly MaxWordChars characters
GateErrorLengthOffByOne(f) ==
    IF ~IsDict(f) THEN "invalid_fields"
    ELSE LET w == Strip(Get(f, "word", <<>>))
         IN  IF w = <<>> THEN "no_word"
             ELSE IF Len(w) >= MaxWordChars THEN "word_too_long"
             ELSE IF ~MatchesWordPattern(w) THEN "invalid_characters"
             ELSE ""

\* the pre-analysis gate: the critical error it reports, or "" when it passes
GateError(f) ==
    IF ~IsDict(f) THEN "invalid_fields"
    ELSE LET w == Strip(Get(f, "word", <<>>))
         IN  IF w = <<>> THEN "no_word"
             ELSE IF Len(w) > MaxWordChars THEN "word_too_long"
             ELSE IF ~MatchesWordPattern(w) THEN "invalid_characters"
             ELSE ""

\* analyze_proposal is called with fields f and runs up to the gate: a gate
\* failure sets the critical error and returns
AnalyzeProposal ==
    /\ pc = "idle"
    /\ \E f \in FieldInputs :
          /\ fields' = f
          /\ IF GateError(f) # ""
             THEN /\ analysis_results' =
                        _set_critical_error(Msg("ERROR", GateError(f), <<>>))
                  /\ pc' = "returned"
             ELSE /\ analysis_results' = analysis_results
                  /\ pc' = "phonotactics"
    /\ ran' = {}
    /\ raised' = {}
    /\ UNCHANGED <<lexicon, valid_domains, returned_results, call>>
    /\ UNCHANGED <<entries, graph, added>>

CheckPhonotactics ==
    /\ pc = "phonotactics"
    /\ \E outcome \in _analyze_phonotactics_basic(word) :
          analysis_results' = [analysis_results EXCEPT !.phonotactics = outcome]
    /\ ran' = ran \cup {"phonotactics"}
    /\ pc' = "lexicon"
    /\ UNCHANGED <<lexicon, valid_domains, fields, raised, returned_results, call>>
    /\ UNCHANGED <<entries, graph, added>>

CheckLexicon ==
    /\ pc = "lexicon"
    /\ analysis_results' = [analysis_results EXCEPT
                              !.lexicon = _analyze_lexicon_basic(lexicon, word, domain)]
    /\ ran' = ran \cup {"lexicon"}
    /\ pc' = "homophones"
    /\ UNCHANGED <<lexicon, valid_domains, fields, raised, returned_results, call>>
    /\ UNCHANGED <<entries, graph, added>>

CheckHomophones ==
    /\ pc = "homophones"
    /\ analysis_results' = [analysis_results EXCEPT
                              !.homophones = _analyze_homophones(lexicon, word)]
    /\ ran' = ran \cup {"homophones"}
    /\ pc' = "semantics"
    /\ UNCHANGED <<lexicon, valid_domains, fields, raised, returned_results, call>>
    /\ UNCHANGED <<entries, graph, added>>

CheckSemantics ==
    /\ pc = "semantics"
    /\ analysis_results' = [analysis_results EXCEPT
                              !.semantics = _analyze_semantics_basic(
                                  valid_domains, definition, domain, justification)]
    /\ ran' = ran \cup {"semantics"}
    /\ pc' = "recommendation"
    /\ UNCHANGED <<lexicon, valid_domains, fields, raised, returned_results, call>>
    /\ UNCHANGED <<entries, graph, added>>

GenerateRecommendation ==
    /\ pc = "recommendation"
    /\ analysis_results' = [analysis_results EXCEPT
                              !.recommendation = _generate_recommendation(analysis_results)]
    /\ pc' = "returned"
    /\ UNCHANGED <<lexicon, valid_domains, fields, ran, raised, returned_results, call>>
    /\ UNCHANGED <<entries, graph, added>>

\* the analyzer after __init__, load_lexicon and load_phonology
Init ==
    /\ entries = <<>>
    /\ graph = [nodes |-> {}, edges |-> <<>>]
    /\ added = 0
    /\ \E lexicon_data \in LexiconFiles :
          /\ lexicon = load_lexicon(lexicon_data).lexicon
          /\ valid_domains = load_lexicon(lexicon_data).valid_domains
    /\ analysis_results = FreshResults
    /\ fields = [word |-> <<>>]
    /\ pc = "idle"
    /\ ran = {}
    /\ raised = {}
    /\ returned_results = <<>>
    /\ call = NoCall

Next ==
    \/ AnalyzeProposal
    \/ CheckPhonotactics
    \/ CheckLexicon
    \/ CheckHomophones
    \/ CheckSemantics
    \/ GenerateRecommendation

Spec == Init /\ [][Next]_vars

-----------------------------------------------------------------------------
(* analyze_proposal with exceptions: a check either completes, or an       *)
(* exception is raised inside its try block and its except clause runs,    *)
(* or an exception leaves the check and analyze_proposal handles it.       *)

\* the step of analyze_proposal after the check of a section
StepAfter(section) ==
    CASE section = "phonotactics" -> "lexicon"
      [] section = "lexicon"      -> "homophones"
      [] section = "homophones"   -> "semantics"
      [] section = "semantics"    -> "recommendation"

\* analyze_proposal called with one of SampleInputs, up to the gate
AnalyzeSampleProposal ==
    /\ pc = "idle"
    /\ \E f \in SampleInputs :
          /\ fields' = f
          /\ IF GateError(f) # ""
             THEN /\ analysis_results' =
                        _set_critical_error(Msg("ERROR", GateError(f), <<>>))
                  /\ pc' = "returned"
             ELSE /\ analysis_results' = analysis_results
                  /\ pc' = "phonotactics"
    /\ ran' = {}
    /\ raised' = {}
    /\ UNCHANGED <<lexicon, valid_domains, returned_results, call>>
    /\ UNCHANGED <<entries, graph, added>>

\* an exception inside the try block of the check that is due: nothing was
\* stored yet, the except clause of the check runs
RaiseInCheck ==
    /\ pc \in SectionSet
    /\ analysis_results' = AnalysisFailed(analysis_results, pc)
    /\ ran' = ran \cup {pc}
    /\ raised' = raised \cup {pc}
    /\ pc' = StepAfter(pc)
    /\ UNCHANGED <<lexicon, valid_domains, fields, returned_results, call>>
    /\ UNCHANGED <<entries, graph, added>>

\* an exception that leaves the check that is due: analyze_proposal catches
\* it and calls _handle_analysis_error
RaiseFromCheck ==
    /\ pc \in SectionSet
    /\ analysis_results' = _handle_analysis_error(analysis_results, pc)
    /\ ran' = ran \cup {pc}
    /\ raised' = raised \cup {pc}
    /\ pc' = StepAfter(pc)
    /\ UNCHANGED <<lexicon, valid_domains, fields, returned_results, call>>
    /\ UNCHANGED <<entries, graph, added>>

NextFault ==
    \/ AnalyzeSampleProposal
    \/ CheckPhonotactics
    \/ CheckLexicon
    \/ CheckHomophones
    \/ CheckSemantics
    \/ RaiseInCheck
    \/ RaiseFromCheck
    \/ GenerateRecommendation

SpecFault == Init /\ [][NextFault]_vars

-----------------------------------------------------------------------------
(* One analyzer given several proposals in a row.  analyze_proposal        *)
(* returns self.analysis_results, the dict __init__ created: the caller    *)
(* holds that object, not a copy.                                          *)

\* the one dict self.analysis_results refers to from __init__ on
AnalysisResultsObject == "self.analysis_results"

\* what an object returned by analyze_proposal holds now
ObjectHeld(object) == IF object = AnalysisResultsObject THEN analysis_results ELSE FreshResults

\* the caller keeps the object the finished call returned and calls
\* analyze_proposal again on the same analyzer
AnalyzeNextProposal ==
    /\ pc = "returned"
    /\ Len(returned_results) + 1 < MaxCalls
    /\ returned_results' = Append(returned_results,
           [object |-> AnalysisResultsObject, held |-> analysis_results, fields |-> fields])
    /\ \E f \in SampleInputs :
          /\ fields' = f
          /\ IF GateError(f) # ""
             THEN /\ analysis_results' =
                        _set_critical_error(Msg("ERROR", GateError(f), <<>>))
                  /\ pc' = "returned"
             ELSE /\ analysis_results' = analysis_results
                  /\ pc' = "phonotactics"
    /\ ran' = {}
    /\ raised' = {}
    /\ UNCHANGED <<lexicon, valid_domains, call>>
    /\ UNCHANGED <<entries, graph, added>>

NextReuse ==
    \/ AnalyzeSampleProposal
    \/ AnalyzeNextProposal
    \/ CheckPhonotactics
    \/ CheckLexicon
    \/ CheckHomophones
    \/ CheckSemantics
    \/ GenerateRecommendation

SpecReuse == Init /\ [][NextReuse]_vars

-----------------------------------------------------------------------------
(* The phonotactic validator applied to every word of PhonWords: the       *)
(* pipeline entered at its phonotactics step, the gate passed.             *)

InitPhon ==
    /\ entries = <<>>
    /\ graph = [nodes |-> {}, edges |-> <<>>]
    /\ added = 0
    /\ lexicon = <<>>
    /\ valid_domains = {}
    /\ analysis_results = FreshResults
    /\ \E w \in PhonWords :
          fields = [word |-> w, definition |-> <<"d">>,
                    domain |-> <<"Emotion">>, justification |-> <<"j">>]
    /\ pc = "phonotactics"
    /\ ran = {}
    /\ raised = {}
    /\ returned_results = <<>>
    /\ call = NoCall

SpecPhon == InitPhon /\ [][CheckPhonotactics]_vars

-----------------------------------------------------------------------------
(* The homophone detector applied to every word of letters and hyphens up  *)
(* to MaxHomLen, against the lexicons of HomophoneLexiconFiles: the        *)
(* pipeline entered at its homophones step, the gate passed.               *)

InitHom ==
    /\ entries = <<>>
    /\ graph = [nodes |-> {}, edges |-> <<>>]
    /\ added = 0
    /\ \E lexicon_data \in HomophoneLexiconFiles :
          /\ lexicon = load_lexicon(lexicon_data).lexicon
          /\ valid_domains = load_lexicon(lexicon_data).valid_domains
    /\ analysis_results = FreshResults
    /\ \E w \in SeqsUpTo(HomophoneAlphabet, MaxHomLen) :
          /\ GateError([word |-> w]) = ""
          /\ fields = [word |-> w, definition |-> <<"d">>,
                       domain |-> <<"Nature">>, justification |-> <<"j">>]
    /\ pc = "homophones"
    /\ ran = {}
    /\ raised = {}
    /\ returned_results = <<>>
    /\ call = NoCall

SpecHom == InitHom /\ [][CheckHomophones]_vars

-----------------------------------------------------------------------------
(* _generate_pronunciation and _calculate_pronunciation_similarity applied *)
(* to every pair of words of letters and hyphens up to MaxSimLen, as       *)
(* test_pronunciation_similarity applies them.                             *)

InitSim ==
    /\ entries = <<>>
    /\ graph = [nodes |-> {}, edges |-> <<>>]
    /\ added = 0
    /\ lexicon = <<>>
    /\ valid_domains = {}
    /\ analysis_results = FreshResults
    /\ fields = [word |-> <<>>]
    /\ pc = "pronunciation"
    /\ ran = {}
    /\ raised = {}
    /\ returned_results = <<>>
    /\ \E word1, word2 \in SeqsUpTo(SimilarityAlphabet, MaxSimLen) :
          /\ GateError([word |-> word1]) = ""
          /\ GateError([word |-> word2]) = ""
          /\ call = [op |-> "similarity", word1 |-> word1, word2 |-> word2]

GeneratePronunciations ==
    /\ pc = "pronunciation"
    /\ call' = [op |-> "similarity", word1 |-> call.word1, word2 |-> call.word2,
                pron1 |-> _generate_pronunciation(call.word1),
                pron2 |-> _generate_pronunciation(call.word2)]
    /\ pc' = "similarity"
    /\ UNCHANGED <<lexicon, valid_domains, analysis_results, fields, ran,
                   raised, returned_results>>
    /\ UNCHANGED <<entries, graph, added>>

CalculateSimilarity ==
    /\ pc = "similarity"
    /\ call' = [op |-> "similarity", word1 |-> call.word1, word2 |-> call.word2,
                pron1 |-> call.pron1, pron2 |-> call.pron2,
                similarity |-> _calculate_pronunciation_similarity(call.pron1, call.pron2)]
    /\ pc' = "returned"
    /\ UNCHANGED <<lexicon, valid_domains, analysis_results, fields, ran,
                   raised, returned_results>>
    /\ UNCHANGED <<entries, graph, added>>

SpecSim == InitSim /\ [][GeneratePronunciations \/ CalculateSimilarity]_vars

-----------------------------------------------------------------------------
(* _levenshtein_distance applied to every pair of sequences up to          *)
(* MaxLevLen.                                                              *)

InitLev ==
    /\ entries = <<>>
    /\ graph = [nodes |-> {}, edges |-> <<>>]
    /\ added = 0
    /\ lexicon = <<>>
    /\ valid_domains = {}
    /\ analysis_results = FreshResults
    /\ fields = [word |-> <<>>]
    /\ pc = "distance"
    /\ ran = {}
    /\ raised = {}
    /\ returned_results = <<>>
    /\ \E s1, s2 \in SeqsUpTo(LevenshteinAlphabet, MaxLevLen) :
          call = [op |-> "distance", s1 |-> s1, s2 |-> s2]

LevenshteinDistance ==
    /\ pc = "distance"
    /\ call' = [op |-> "distance", s1 |-> call.s1, s2 |-> call.s2,
                distance |-> _levenshtein_distance(call.s1, call.s2)]
    /\ pc' = "returned"
    /\ UNCHANGED <<lexicon, valid_domains, analysis_results, fields, ran,
                   raised, returned_results>>
    /\ UNCHANGED <<entries, graph, added>>

SpecLev == InitLev /\ [][LevenshteinDistance]_vars

-----------------------------------------------------------------------------
(* _generate_recommendation applied to every combination of statuses, as   *)
(* test_recommendation_logic applies it.                                   *)

InitRec ==
    /\ entries = <<>>
    /\ graph = [nodes |-> {}, edges |-> <<>>]
    /\ added = 0
    /\ lexicon = <<>>
    /\ valid_domains = {}
    /\ \E st \in [SectionSet -> StatusValues] :
          analysis_results =
              [phonotactics   |-> [status |-> st["phonotactics"], messages |-> <<>>],
               lexicon        |-> [status |-> st["lexicon"], messages |-> <<>>],
               homophones     |-> [status |-> st["homophones"], messages |-> <<>>],
               semantics      |-> [status |-> st["semantics"], messages |-> <<>>],
               recommendation |-> "PENDING"]
    /\ fields = [word |-> <<>>]
    /\ pc = "recommendation"
    /\ ran = {}
    /\ raised = {}
    /\ returned_results = <<>>
    /\ call = NoCall

SpecRec == InitRec /\ [][GenerateRecommendation]_vars

-----------------------------------------------------------------------------
(* Vocabulary of the properties                                            *)

Status(sec) == analysis_results[sec].status

Messages(sec) == analysis_results[sec].messages

Recommendation == analysis_results.recommendation

Returned == pc = "returned"

\* the proposed word after trimming
ProposedWord == Strip(Get(fields, "word", <<>>))

\* the proposed word is empty, too long, or holds a character that is
\* neither an ASCII letter nor a hyphen
WordRejectedByGate ==
    \/ ProposedWord = <<>>
    \/ Len(ProposedWord) > MaxWordChars
    \/ \E i \in DOMAIN ProposedWord :
           ProposedWord[i] \notin (LowerSet \cup UpperSet \cup {"-"})

\* the hyphen-delimited parts of the proposed word, lower-cased
WordParts == [k \in DOMAIN SplitHyphen(ProposedWord) |-> Lower(SplitHyphen(ProposedWord)[k])]

\* part k has consonants at positions i..j
ConsonantsAt(k, i, j) ==
    /\ 1 <= i /\ j <= Len(WordParts[k])
    /\ \A n \in i..j : WordParts[k][n] \in consonants

-----------------------------------------------------------------------------

AllChecksDecided == \A sec \in SectionSet : Status(sec) \in {"PASS", "WARNING", "FAIL", "ERROR"}

(* C1: for the four statuses drawn from Pass, Warning, Fail, Error the     *)
(* recommendation is Error if any check is Error, else Reject if any is    *)
(* Fail, else Review if any is Warning, else Approve, however many         *)
(* warnings there are.                                                     *)
C1_RecommendationPrecedence ==
    (Returned /\ AllChecksDecided) =>
        Recommendation =
            IF \E sec \in SectionSet : Status(sec) = "ERROR" THEN "ERROR"
            ELSE IF \E sec \in SectionSet : Status(sec) = "FAIL" THEN "REJECT"
            ELSE IF \E sec \in SectionSet : Status(sec) = "WARNING" THEN "REVIEW"
            ELSE "APPROVE"

\* three warnings and a pass give Review
C1_Witness ==
    /\ Returned
    /\ Cardinality({sec \in SectionSet : Status(sec) = "WARNING"}) = 3
    /\ \E sec \in SectionSet : Status(sec) = "PASS"
    /\ Recommendation = "REVIEW"

-----------------------------------------------------------------------------

(* C2: a word the gate rejects (empty after trimming, longer than 50       *)
(* characters, or with a character other than letters and hyphens) has no  *)
(* check run, every check Error and the recommendation Error, whatever the *)
(* other fields are.                                                       *)
C2_GateShortCircuits ==
    (pc # "idle" /\ WordRejectedByGate) =>
        /\ Returned
        /\ ran = {}
        /\ \A sec \in SectionSet : Status(sec) = "ERROR"
        /\ Recommendation = "ERROR"

\* a word of 51 letters, proposed with a definition, a known domain and a
\* justification
C2_Witness ==
    /\ Returned
    /\ IsDict(fields)
    /\ Len(ProposedWord) = MaxWordChars + 1
    /\ Strip(Get(fields, "definition", <<>>)) # <<>>
    /\ Strip(Get(fields, "domain", <<>>)) \in valid_domains
    /\ Strip(Get(fields, "justification", <<>>)) # <<>>
    /\ Recommendation = "ERROR"

-----------------------------------------------------------------------------

(* C3: for a word the gate accepts, all four checks run: on return no      *)
(* status is Pending or Error and the recommendation is Approve, Review or *)
(* Reject, also when earlier checks fail.                                  *)
C3_AllChecksRun ==
    (Returned /\ IsDict(fields) /\ ~WordRejectedByGate) =>
        /\ ran = SectionSet
        /\ \A sec \in SectionSet : Status(sec) \in {"PASS", "WARNING", "FAIL"}
        /\ Recommendation \in {"APPROVE", "REVIEW", "REJECT"}

\* a word made only of hyphens: phonotactics and lexicon fail, and the later
\* checks still ran
C3_Witness ==
    /\ Returned
    /\ ProposedWord = <<"-", "-", "-">>
    /\ Status("phonotactics") = "FAIL"
    /\ Status("lexicon") = "FAIL"
    /\ Status("homophones") = "PASS"
    /\ Status("semantics") \in {"PASS", "WARNING", "FAIL"}
    /\ Recommendation = "REJECT"

-----------------------------------------------------------------------------

(* C4: the semantic status is the worst of the three sub-results: Fail     *)
(* when the domain is unknown or the definition empty, whatever the        *)
(* justification; Warning when only the justification is empty; Pass when  *)
(* all three are acceptable.                                               *)
C4_SemanticsWorstOfThree ==
    ("semantics" \in ran) =>
        Status("semantics") =
            IF domain \notin valid_domains \/ definition = <<>> THEN "FAIL"
            ELSE IF justification = <<>> THEN "WARNING"
            ELSE "PASS"

-----------------------------------------------------------------------------

OffendingCharacters ==
    {LowerChar(ProposedWord[i]) : i \in {n \in DOMAIN ProposedWord : ProposedWord[n] # "-"}}
        \ valid_phonemes

InvalidPhonemeMessages ==
    {n \in DOMAIN Messages("phonotactics") :
        Messages("phonotactics")[n].id = "invalid_phonemes"}

(* C5: a word with a character outside the inventory (hyphens removed,     *)
(* lower-cased) fails the phonotactic check, and the failure message lists *)
(* each distinct offending character exactly once.                         *)
C5_OffendingCharactersListedOnce ==
    ("phonotactics" \in ran /\ OffendingCharacters # {}) =>
        /\ Status("phonotactics") = "FAIL"
        /\ Cardinality(InvalidPhonemeMessages) = 1
        /\ \A n \in InvalidPhonemeMessages :
              LET listed == Messages("phonotactics")[n].args[1]
              IN  /\ Messages("phonotactics")[n].marker = "FAIL"
                  /\ ToSet(listed) = OffendingCharacters
                  /\ Len(listed) = Cardinality(OffendingCharacters)

\* two distinct offending characters, one of them occurring twice
C5_Witness ==
    /\ "phonotactics" \in ran
    /\ Cardinality(OffendingCharacters) = 2
    /\ Len(InvalidPhonemes(ProposedWord)) = 3
    /\ Status("phonotactics") = "FAIL"

-----------------------------------------------------------------------------

HasForbiddenCluster ==
    \/ \E k \in DOMAIN WordParts : \E i \in DOMAIN WordParts[k] :
          \/ ConsonantsAt(k, i, i + 2)
          \/ /\ ConsonantsAt(k, i, i + 1)
             /\ <<WordParts[k][i], WordParts[k][i + 1]>> \notin permitted_clusters
    \/ ConsonantsAt(1, 1, 2)

(* C6: the phonotactic check fails every word in which some part has more  *)
(* than two consonants in a row, two consonants in a row that are no       *)
(* permitted cluster, or two consonants at the very start of the first     *)
(* part; a permitted cluster at the start of the word is rejected although *)
(* the syllable automaton accepts the word.                                *)
C6_ForbiddenClustersFail ==
    ("phonotactics" \in ran /\ HasForbiddenCluster) => Status("phonotactics") = "FAIL"

\* "sta": the syllable step passes, the cluster step fails the word
C6_Witness ==
    /\ "phonotactics" \in ran
    /\ ProposedWord = <<"s", "t", "a">>
    /\ _is_valid_syllable_sequence(ProposedWord)
    /\ \E n \in DOMAIN Messages("phonotactics") :
          Messages("phonotactics")[n] = Msg("PASS", "syllable_structure_ok", <<>>)
    /\ Status("phonotactics") = "FAIL"

-----------------------------------------------------------------------------

SomeStepFails ==
    \/ OffendingCharacters # {}
    \/ HasHyphen(ProposedWord) /\ ~_validate_hyphen_usage(ProposedWord).valid
    \/ ~_validate_syllable_structure(ProposedWord).valid
    \/ ~_validate_consonant_clusters(ProposedWord).valid

(* C7: the phonotactic status is Fail exactly when one of the steps run    *)
(* (phoneme membership, hyphen placement, syllable structure, consonant    *)
(* clusters) fails, is Pass when all pass, and is never Warning.           *)
C7_FailIffSomeStepFails ==
    ("phonotactics" \in ran) =>
        /\ Status("phonotactics") \in {"PASS", "FAIL"}
        /\ Status("phonotactics") = "FAIL" <=> SomeStepFails
        /\ Status("phonotactics") = "FAIL" <=>
              \E n \in DOMAIN Messages("phonotactics") :
                  Messages("phonotactics")[n].marker = "FAIL"

\* only the cluster step fails
C7_Witness ==
    /\ "phonotactics" \in ran
    /\ OffendingCharacters = {}
    /\ HasHyphen(ProposedWord) /\ _validate_hyphen_usage(ProposedWord).valid
    /\ _validate_syllable_structure(ProposedWord).valid
    /\ ~_validate_consonant_clusters(ProposedWord).valid
    /\ Status("phonotactics") = "FAIL"

-----------------------------------------------------------------------------

IsCVWord ==
    /\ ProposedWord # <<>>
    /\ Len(ProposedWord) % 2 = 0
    /\ \A i \in DOMAIN ProposedWord :
          IF i % 2 = 1 THEN ProposedWord[i] \in consonants
                       ELSE ProposedWord[i] \in vowels

(* C8: a non-empty word without hyphen that is a concatenation of CV       *)
(* syllables (an inventory consonant, then an inventory vowel) passes the  *)
(* phonotactic check.                                                      *)
C8_CVWordsPass ==
    ("phonotactics" \in ran /\ IsCVWord) => Status("phonotactics") = "PASS"

\* a word of two CV syllables
C8_Witness ==
    /\ "phonotactics" \in ran
    /\ IsCVWord
    /\ Len(ProposedWord) = 4
    /\ Status("phonotactics") = "PASS"

-----------------------------------------------------------------------------

\* the places (part, position) where two consonants stand in a row
AdjacentConsonants ==
    {kp \in UNION {{<<k, i>> : i \in DOMAIN WordParts[k]} : k \in DOMAIN WordParts} :
        ConsonantsAt(kp[1], kp[2], kp[2] + 1)}

IsOnsetClusterWord ==
    /\ OffendingCharacters = {}
    /\ \A k \in DOMAIN WordParts :
          \E i \in DOMAIN WordParts[k] : WordParts[k][i] \in vowels
    /\ Cardinality(AdjacentConsonants) = 1
    /\ \A kp \in AdjacentConsonants :
          LET part == WordParts[kp[1]]
              i == kp[2]
          IN  /\ <<part[i], part[i + 1]>> \in permitted_clusters
              /\ i + 2 <= Len(part) /\ part[i + 2] \in vowels
              /\ ~(kp[1] = 1 /\ i = 1)

-----------------------------------------------------------------------------

\* the stored entries whose key is the proposed word
EntriesOfProposedWord == {i \in DOMAIN lexicon : lexicon[i].key = ProposedWord}

(* C10: proposing a word that is a key of the lexicon yields lexicon       *)
(* status Fail with a message quoting the entry's definition verbatim,     *)
(* hyphenated or not, whatever its roots and the proposed domain.          *)
C10_DuplicateWordFails ==
    ("lexicon" \in ran /\ EntriesOfProposedWord # {}) =>
        /\ Status("lexicon") = "FAIL"
        /\ Messages("lexicon")[1].marker = "FAIL"
        /\ Messages("lexicon")[1].id = "word_already_exists"
        /\ \A i \in EntriesOfProposedWord :
              "definition" \in DOMAIN lexicon[i].entry =>
                  Messages("lexicon")[1].args = <<ProposedWord, lexicon[i].entry.definition>>

\* a hyphenated key whose roots exist, proposed in a domain unrelated to them
C10_Witness ==
    /\ "lexicon" \in ran
    /\ ProposedWord = <<"a", "-", "a">>
    /\ EntriesOfProposedWord # {}
    /\ domain = <<"Technology">>
    /\ Status("lexicon") = "FAIL"

-----------------------------------------------------------------------------

\* the hyphen-delimited segments of the proposed word, as written
ProposedSegments == SplitHyphen(ProposedWord)

\* the positions of the segments that are no key of the lexicon
MissingSegments ==
    {k \in DOMAIN ProposedSegments :
        \A i \in DOMAIN lexicon : lexicon[i].key # ProposedSegments[k]}

\* the positions of the lexicon messages saying that a root was not found
RootNotFoundMessages ==
    {i \in DOMAIN Messages("lexicon") : Messages("lexicon")[i].id = "root_not_found"}

(* C11: for a hyphenated word with a segment that is no key of the lexicon *)
(* the lexicon check is Fail and its one missing-root message names the    *)
(* leftmost missing segment; when every segment is a key and the word is   *)
(* no duplicate the lexicon status is Pass or Warning.                     *)
C11_MissingRootFails ==
    ("lexicon" \in ran /\ \E i \in DOMAIN ProposedWord : ProposedWord[i] = "-") =>
        IF MissingSegments # {}
        THEN /\ Status("lexicon") = "FAIL"
             /\ Cardinality(RootNotFoundMessages) = 1
             /\ \A i \in RootNotFoundMessages :
                    /\ Messages("lexicon")[i].marker = "FAIL"
                    /\ Messages("lexicon")[i].args =
                          <<ProposedSegments[CHOOSE k \in MissingSegments :
                                               \A j \in MissingSegments : k <= j]>>
        ELSE EntriesOfProposedWord = {} => Status("lexicon") \in {"PASS", "WARNING"}

\* "t-a" against a lexicon holding "t" and not "a": the second segment is
\* the one named
C11_Witness ==
    /\ "lexicon" \in ran
    /\ ProposedWord = <<"t", "-", "a">>
    /\ MissingSegments = {2}
    /\ Status("lexicon") = "FAIL"
    /\ \E i \in RootNotFoundMessages : Messages("lexicon")[i].args = << <<"a">> >>

-----------------------------------------------------------------------------

\* the proposed domain after trimming
ProposedDomain == Strip(Get(fields, "domain", <<>>))

\* the domains of the lexicon entries of the proposed word's segments; an
\* entry without a domain counts as "unknown"
DomainsOfSegments ==
    {IF "domain" \in DOMAIN lexicon[i].entry THEN lexicon[i].entry.domain ELSE <<"unknown">> :
        i \in {n \in DOMAIN lexicon :
                 \E k \in DOMAIN ProposedSegments : lexicon[n].key = ProposedSegments[k]}}

\* the fixed compatibility table
CompatibleRootDomains(d) ==
    CASE d = <<"Emotion">> -> {<<"Body">>, <<"Nature">>, <<"Quality">>}
      [] d = <<"Action">>  -> {<<"Body">>, <<"Object">>, <<"Nature">>}
      [] d = <<"Quality">> -> {<<"Nature">>, <<"Object">>, <<"Body">>}
      [] OTHER -> {}

DomainPlausible ==
    \/ ProposedDomain \in DomainsOfSegments
    \/ CompatibleRootDomains(ProposedDomain) \cap DomainsOfSegments # {}

\* the positions of the lexicon messages of the domain-plausibility step
DomainStepMessages ==
    {i \in DOMAIN Messages("lexicon") :
        Messages("lexicon")[i].id \in
            {"domain_consistent", "domain_compatible", "domain_may_not_be_consistent"}}

\* the domain-plausibility step is due: a hyphenated word that is no
\* duplicate and whose segments are all keys of the lexicon
DomainStepDue ==
    /\ \E i \in DOMAIN ProposedWord : ProposedWord[i] = "-"
    /\ EntriesOfProposedWord = {}
    /\ MissingSegments = {}

(* C12: the domain-plausibility step reports exactly when the word is      *)
(* hyphenated and neither the duplicate nor the root check failed; then    *)
(* the status is Pass when the proposed domain is a root's domain or the   *)
(* compatibility table maps it to a root's domain, and Warning otherwise;  *)
(* the lexicon status is the worst of the sub-results: Fail for a          *)
(* duplicate or a missing root, else Warning for an implausible domain,    *)
(* else Pass.                                                              *)
C12_DomainStepLowersToWarning ==
    ("lexicon" \in ran) =>
        /\ (DomainStepMessages # {}) <=> DomainStepDue
        /\ Cardinality(DomainStepMessages) <= 1
        /\ DomainStepDue =>
              Status("lexicon") = IF DomainPlausible THEN "PASS" ELSE "WARNING"
        /\ Status("lexicon") =
              IF \/ EntriesOfProposedWord # {}
                 \/ /\ \E i \in DOMAIN ProposedWord : ProposedWord[i] = "-"
                    /\ MissingSegments # {}
              THEN "FAIL"
              ELSE IF DomainStepDue /\ ~DomainPlausible THEN "WARNING"
              ELSE "PASS"

\* "t-t" proposed as Emotion while "t" is a Quality word: the table makes
\* it plausible
C12_Witness ==
    /\ "lexicon" \in ran
    /\ DomainStepDue
    /\ ProposedDomain = <<"Emotion">>
    /\ DomainsOfSegments = {<<"Quality">>}
    /\ Status("lexicon") = "PASS"
    /\ \E i \in DomainStepMessages : Messages("lexicon")[i].id = "domain_compatible"

-----------------------------------------------------------------------------

\* the similarity of the pronunciations of two words, as a fraction
SimilarityOfWords(w1, w2) ==
    _calculate_pronunciation_similarity(_generate_pronunciation(w1),
                                        _generate_pronunciation(w2))

\* fraction x is at least fraction y
AtLeast(x, y) == x.num * y.den >= y.num * x.den

\* the lexicon entries of other words whose similarity to the proposed
\* word is above 0.6
SimilarEntries ==
    {i \in DOMAIN lexicon :
        /\ lexicon[i].key # ProposedWord
        /\ 10 * SimilarityOfWords(ProposedWord, lexicon[i].key).num
               > 6 * SimilarityOfWords(ProposedWord, lexicon[i].key).den}

\* the positions of the homophone messages that list a similar word
ListedMessages ==
    {i \in DOMAIN Messages("homophones") : Messages("homophones")[i].id = "similar_word"}

\* the positions of the dedicated likely-homophone messages
LikelyHomophoneMessages ==
    {i \in DOMAIN Messages("homophones") :
        Messages("homophones")[i].id = "very_similar_pronunciation"}

(* C13: the homophone status is Warning exactly when some other lexicon    *)
(* word has similarity above 0.6 to the proposed word and Pass otherwise;  *)
(* the listed candidates are such words, at most three, in descending      *)
(* order of similarity, and no unlisted candidate is more similar than a   *)
(* listed one.                                                             *)
C13_WarningIffSimilarWord ==
    ("homophones" \in ran) =>
        /\ Status("homophones") = IF SimilarEntries # {} THEN "WARNING" ELSE "PASS"
        /\ Cardinality(ListedMessages) <= 3
        /\ \/ Cardinality(ListedMessages) = Cardinality(SimilarEntries)
           \/ Cardinality(ListedMessages) = 3 /\ Cardinality(SimilarEntries) > 3
           \/ ListedMessages = {} /\ LikelyHomophoneMessages # {}
        /\ \A i \in ListedMessages :
              /\ \E e \in SimilarEntries :
                    /\ lexicon[e].key = Messages("homophones")[i].args[1]
                    /\ SimilarityOfWords(ProposedWord, lexicon[e].key)
                          = Messages("homophones")[i].args[3]
              /\ \A j \in ListedMessages :
                    i < j => AtLeast(Messages("homophones")[i].args[3],
                                     Messages("homophones")[j].args[3])
              /\ \A e \in SimilarEntries :
                    (\A j \in ListedMessages :
                        Messages("homophones")[j].args[1] # lexicon[e].key)
                    => AtLeast(Messages("homophones")[i].args[3],
                               SimilarityOfWords(ProposedWord, lexicon[e].key))

\* "aaa" has five similar words; the one entered last is the closest and
\* is listed first of three
C13_Witness ==
    /\ "homophones" \in ran
    /\ ProposedWord = <<"a", "a", "a">>
    /\ Cardinality(SimilarEntries) = 5
    /\ Status("homophones") = "WARNING"
    /\ Cardinality(ListedMessages) = 3
    /\ Messages("homophones")[2].args[1] = <<"a", "-", "a", "a">>

-----------------------------------------------------------------------------

\* the lexicon entries of other words whose similarity to the proposed
\* word is the highest
BestMatches ==
    {i \in DOMAIN lexicon :
        /\ lexicon[i].key # ProposedWord
        /\ \A j \in DOMAIN lexicon :
              lexicon[j].key # ProposedWord =>
                  AtLeast(SimilarityOfWords(ProposedWord, lexicon[i].key),
                          SimilarityOfWords(ProposedWord, lexicon[j].key))}

(* C14: when the best match has similarity above 0.9 the homophone check   *)
(* is Warning with the dedicated likely-homophone message naming a best    *)
(* match, however many other words are above 0.6.                          *)
C14_BestMatchGetsDedicatedMessage ==
    ("homophones" \in ran
        /\ \E e \in BestMatches :
              10 * SimilarityOfWords(ProposedWord, lexicon[e].key).num
                  > 9 * SimilarityOfWords(ProposedWord, lexicon[e].key).den) =>
        /\ Status("homophones") = "WARNING"
        /\ \E i \in LikelyHomophoneMessages :
              \E e \in BestMatches :
                  Messages("homophones")[i].args[1] = lexicon[e].key

-----------------------------------------------------------------------------

\* a similarity has been calculated
SimilarityReturned == pc = "returned" /\ call.op = "similarity"

(* C15: the similarity of pronunciations a and b equals the similarity of  *)
(* b and a.                                                                *)
C15_SimilaritySymmetric ==
    SimilarityReturned =>
        call.similarity = _calculate_pronunciation_similarity(call.pron2, call.pron1)

\* two pronunciations of different lengths, neither empty, one edit apart
C15_Witness ==
    /\ SimilarityReturned
    /\ call.pron1 = <<"a", "U+027E">>
    /\ call.pron2 = <<"a", "U+027E", "a">>
    /\ call.similarity.num * 30 = 23 * call.similarity.den

-----------------------------------------------------------------------------

(* C16: for every word the gate accepts, the similarity of its             *)
(* pronunciation to itself is 1.0.                                         *)
C16_SelfSimilarityIsOne ==
    (SimilarityReturned /\ call.word1 = call.word2) =>
        call.similarity.num = call.similarity.den

-----------------------------------------------------------------------------

\* the least number of insertions, deletions and substitutions of single
\* symbols that turn s into t
RECURSIVE EditDistance(_, _)
EditDistance(s, t) ==
    IF s = <<>> THEN Len(t)
    ELSE IF t = <<>> THEN Len(s)
    ELSE LET delete == EditDistance(Tail(s), t) + 1
             insert == EditDistance(s, Tail(t)) + 1
             change == EditDistance(Tail(s), Tail(t)) + (IF Head(s) = Head(t) THEN 0 ELSE 1)
         IN  IF delete <= insert /\ delete <= change THEN delete
             ELSE IF insert <= change THEN insert ELSE change

\* a distance has been calculated
DistanceReturned == pc = "returned" /\ call.op = "distance"

(* C17: _levenshtein_distance(s1, s2) is the least number of single-symbol *)
(* insertions, deletions and substitutions turning s1 into s2: it is 0     *)
(* exactly when s1 = s2, the other's length when one is empty, and the     *)
(* same for (s2, s1).                                                      *)
C17_LevenshteinIsEditDistance ==
    DistanceReturned =>
        /\ call.distance = EditDistance(call.s1, call.s2)
        /\ (call.distance = 0) <=> (call.s1 = call.s2)
        /\ call.s1 = <<>> => call.distance = Len(call.s2)
        /\ call.s2 = <<>> => call.distance = Len(call.s1)
        /\ call.distance = _levenshtein_distance(call.s2, call.s1)

\* the shorter sequence first, and a distance that needs a substitution
\* and an insertion
C17_Witness ==
    /\ DistanceReturned
    /\ call.s1 = <<"a", "t">>
    /\ call.s2 = <<"t", "t", "a">>
    /\ call.distance = 2

-----------------------------------------------------------------------------

\* the outcomes a check has for the proposal when no exception is raised
NormalOutcomes(section) ==
    CASE section = "phonotactics" -> _analyze_phonotactics_basic(ProposedWord)
      [] section = "lexicon" ->
             {_analyze_lexicon_basic(lexicon, ProposedWord, ProposedDomain)}
      [] section = "homophones" -> {_analyze_homophones(lexicon, ProposedWord)}
      [] section = "semantics" ->
             {_analyze_semantics_basic(valid_domains,
                  Strip(Get(fields, "definition", <<>>)), ProposedDomain,
                  Strip(Get(fields, "justification", <<>>)))}

(* C18: when the gate has passed and an exception is raised in a check,    *)
(* analyze_proposal still returns; each check that raised is Error with an *)
(* error message, each other check ran and has its normal Pass, Warning or *)
(* Fail outcome, and the recommendation is Error.                          *)
C18_FailingCheckIsIsolated ==
    /\ (raised # {} /\ pc \notin SectionSet) => pc \in {"recommendation", "returned"}
    /\ (Returned /\ raised # {}) =>
          /\ \A sec \in raised :
                /\ Status(sec) = "ERROR"
                /\ Messages(sec) # <<>>
                /\ Messages(sec)[Len(Messages(sec))].marker = "ERROR"
          /\ \A sec \in SectionSet \ raised :
                /\ sec \in ran
                /\ Status(sec) \in {"PASS", "WARNING", "FAIL"}
                /\ analysis_results[sec] \in NormalOutcomes(sec)
          /\ Recommendation = "ERROR"

\* the lexicon check alone raised for the compound "t-a"; the phonotactic
\* check before it and the two checks after it report as usual
C18_Witness ==
    /\ Returned
    /\ raised = {"lexicon"}
    /\ ProposedWord = <<"t", "-", "a">>
    /\ Status("lexicon") = "ERROR"
    /\ Status("phonotactics") = "FAIL"
    /\ Status("homophones") = "WARNING"
    /\ Status("semantics") \in {"PASS", "WARNING", "FAIL"}
    /\ Recommendation = "ERROR"

-----------------------------------------------------------------------------

(* C19: the result returned for an earlier proposal still holds what it    *)
(* held when it was returned, whatever the analyzer is given afterwards,   *)
(* and the result of the latest proposal holds that proposal's outcomes    *)
(* only.                                                                   *)
C19_ResultsAreNotShared ==
    /\ \A i \in DOMAIN returned_results :
          ObjectHeld(returned_results[i].object) = returned_results[i].held
    /\ (Returned /\ ran = SectionSet) =>
          \A sec \in SectionSet : analysis_results[sec] \in NormalOutcomes(sec)

-----------------------------------------------------------------------------

\* the check step a phonotactic message reports on
StepOfMessage(m) ==
    CASE m.id \in {"invalid_phonemes", "valid_phonemes_list", "all_phonemes_valid"}
             -> "phoneme membership"
      [] m.id \in {"consecutive_hyphens", "hyphen_at_boundary", "fewer_than_two_parts",
                   "empty_word_part", "invalid_syllable_in_part",
                   "hyphen_placement_correct"}
             -> "hyphen placement"
      [] m.id \in {"invalid_syllable_structure", "syllable_structure_ok"}
             -> "syllable structure"
      [] m.id \in {"cluster_too_long", "cluster_not_permitted",
                   "cluster_at_word_beginning", "clusters_valid"}
             -> "consonant clusters"
      [] OTHER -> "none"

\* the steps executed for the proposed word, in order
ExecutedSteps ==
    <<"phoneme membership">>
    \o (IF \E i \in DOMAIN ProposedWord : ProposedWord[i] = "-"
        THEN <<"hyphen placement">> ELSE <<>>)
    \o <<"syllable structure", "consonant clusters">>

\* the phonotactic messages that carry a pass or fail marker, in order
MarkedMessages ==
    SelectSeq(Messages("phonotactics"), LAMBDA m : m.marker \in {"PASS", "FAIL"})

-----------------------------------------------------------------------------

(* C28: for the four statuses drawn from Pending, Pass, Warning, Fail and  *)
(* Error, the recommendation is Approve only if all four checks are Pass;  *)
(* a check still Pending never leads to Approve.                           *)
C28_ApproveOnlyIfAllPass ==
    (Returned /\ Recommendation = "APPROVE") =>
        \A sec \in SectionSet : Status(sec) = "PASS"

-----------------------------------------------------------------------------

\* part[i..] is a concatenation of syllables: an optional onset of one
\* consonant or of two consonants forming a permitted cluster, one vowel,
\* an optional coda of one consonant
RECURSIVE IsSyllableConcatenation(_, _)
IsSyllableConcatenation(part, i) ==
    \/ i = Len(part) + 1
    \/ \E onset \in 0..2, coda \in 0..1 :
          /\ i + onset + coda <= Len(part)
          /\ \A n \in i..(i + onset - 1) : part[n] \in consonants
          /\ onset = 2 => <<part[i], part[i + 1]>> \in permitted_clusters
          /\ part[i + onset] \in vowels
          /\ coda = 1 => part[i + onset + 1] \in consonants
          /\ IsSyllableConcatenation(part, i + onset + 1 + coda)

\* the part holds a character that is neither consonant nor vowel
HasForeignCharacter(part) == \E i \in DOMAIN part : part[i] \notin valid_phonemes

\* the part ends in a consonant that is not the coda of a vowel before it
EndsInOnsetWithoutVowel(part) ==
    /\ part # <<>>
    /\ part[Len(part)] \in consonants
    /\ Len(part) = 1 \/ part[Len(part) - 1] \notin vowels

\* the message of the syllable-structure step
SyllableStepMessages ==
    SelectSeq(Messages("phonotactics"),
              LAMBDA m : m.id \in {"syllable_structure_ok", "invalid_syllable_structure"})

\* the parts the syllable-structure step accepted: all of them when it
\* passed, the ones before the part it names when it failed
AcceptedParts ==
    IF SyllableStepMessages = <<>> THEN {}
    ELSE LET m == SyllableStepMessages[1]
         IN  IF m.marker = "PASS" THEN DOMAIN WordParts
             ELSE {k \in DOMAIN WordParts :
                      \A j \in 1..k : SplitHyphen(ProposedWord)[j] # m.args[1]}

(* C27: every word part accepted by _is_valid_syllable_sequence is         *)
(* non-empty and a concatenation of syllables (optional onset of one       *)
(* consonant or a permitted two-consonant cluster, one vowel, optional     *)
(* one-consonant coda); a part holding a character that is neither         *)
(* consonant nor vowel, or ending in an onset with no vowel, is not        *)
(* accepted.                                                               *)
C27_AcceptedPartsAreSyllableSequences ==
    ("phonotactics" \in ran) =>
        /\ Len(SyllableStepMessages) = 1
        /\ \A k \in AcceptedParts :
              /\ WordParts[k] # <<>>
              /\ IsSyllableConcatenation(WordParts[k], 1)
              /\ ~HasForeignCharacter(WordParts[k])
              /\ ~EndsInOnsetWithoutVowel(WordParts[k])

\* an accepted part with a cluster onset, before a rejected part that ends
\* in an onset
C27_Witness ==
    /\ "phonotactics" \in ran
    /\ Len(WordParts) = 2
    /\ AcceptedParts = {1}
    /\ WordParts[1] = <<"s", "t", "a">>
    /\ EndsInOnsetWithoutVowel(WordParts[2])

-----------------------------------------------------------------------------

\* a word with its hyphens removed and its letters lower-cased
Normalized(w) == RemoveHyphens(Lower(w))

\* the proposed word is no key of the lexicon, and differs from a key only
\* in letter case or in its hyphens
IsCaseOrHyphenVariant ==
    /\ ProposedWord \notin LexiconKeys(lexicon)
    /\ \E key \in LexiconKeys(lexicon) : Normalized(key) = Normalized(ProposedWord)

\* the duplicate check reported the word as already in the lexicon
DuplicateFail ==
    \E n \in DOMAIN Messages("lexicon") :
        Messages("lexicon")[n].id = "word_already_exists"

(* C29: a proposed word that is no key of the lexicon but differs from a   *)
(* lexicon word only in letter case or in the presence or position of      *)
(* hyphens passes the duplicate check and gets homophone status Warning.   *)
C29_CaseOrHyphenVariantIsWarned ==
    (Returned /\ {"lexicon", "homophones"} \subseteq ran /\ IsCaseOrHyphenVariant) =>
        /\ ~DuplicateFail
        /\ Status("homophones") = "WARNING"

-----------------------------------------------------------------------------
(* Input sanitizer.  A text handed to _sanitize_input is a string; Len,    *)
(* \o and SubSeq act on its characters.                                    *)

\* the length limit of a field
MaxFieldChars == 1000

CharAt(s, i) == SubSeq(s, i, i)

Least(S) == CHOOSE x \in S : \A y \in S : x <= y

\* the pattern stands in s at index i
StandsAt(s, i, pattern) ==
    /\ i >= 1
    /\ i + Len(pattern) - 1 <= Len(s)
    /\ SubSeq(s, i, i + Len(pattern) - 1) = pattern

\* pattern in s
Contains(s, pattern) == \E i \in 1..(Len(s) - Len(pattern) + 1) : StandsAt(s, i, pattern)

\* s.lower(), for ASCII letters
RECURSIVE LowerString(_)
LowerString(s) ==
    IF s = "" THEN ""
    ELSE LowerChar(CharAt(s, 1)) \o LowerString(SubSeq(s, 2, Len(s)))

\* the pattern (in lower case) stands in s at index i, letter case ignored
StandsAtIgnoreCase(s, i, pattern) ==
    /\ i >= 1
    /\ i + Len(pattern) - 1 <= Len(s)
    /\ CharAt(s, i) = CharAt(pattern, 1)
    /\ LowerString(SubSeq(s, i, i + Len(pattern) - 1)) = pattern

\* the least index from lo on at which the pattern stands in s, or 0
IndexOf(s, pattern, lo) ==
    LET hits == {q \in lo..(Len(s) - Len(pattern) + 1) : StandsAt(s, q, pattern)}
    IN  IF hits = {} THEN 0 ELSE Least(hits)

IndexOfIgnoreCase(s, pattern, lo) ==
    LET hits == {q \in lo..(Len(s) - Len(pattern) + 1) : StandsAtIgnoreCase(s, q, pattern)}
    IN  IF hits = {} THEN 0 ELSE Least(hits)

\* a match of <script[^>]*>.*?</script> (IGNORECASE, DOTALL) starting at
\* index p of s: the index after the match, or 0 when there is none.  The
\* tag is closed by the first '>' and the match ended by the first
\* '</script>' after it
ScriptMatchEnd(s, p) ==
    IF ~StandsAtIgnoreCase(s, p, "<script") THEN 0
    ELSE LET g == IndexOf(s, ">", p + 7)
         IN  IF g = 0 THEN 0
             ELSE LET q == IndexOfIgnoreCase(s, "</script>", g + 1)
                  IN  IF q = 0 THEN 0 ELSE q + 9

\* re.sub(r'<script[^>]*>.*?</script>', '', text, IGNORECASE | DOTALL):
\* the leftmost match is removed and the scan goes on after it
RECURSIVE RemoveScripts(_)
RemoveScripts(s) ==
    LET starts == {p \in 1..Len(s) : CharAt(s, p) = "<" /\ ScriptMatchEnd(s, p) # 0}
    IN  IF starts = {} THEN s
        ELSE LET p == Least(starts)
             IN  SubSeq(s, 1, p - 1)
                 \o RemoveScripts(SubSeq(s, ScriptMatchEnd(s, p), Len(s)))

\* a match of <!--.*?--> (DOTALL) starting at index p of s
CommentMatchEnd(s, p) ==
    IF ~StandsAt(s, p, "<!--") THEN 0
    ELSE LET q == IndexOf(s, "-->", p + 4)
         IN  IF q = 0 THEN 0 ELSE q + 3

\* re.sub(r'<!--.*?-->', '', text, DOTALL)
RECURSIVE RemoveComments(_)
RemoveComments(s) ==
    LET starts == {p \in 1..Len(s) : CharAt(s, p) = "<" /\ CommentMatchEnd(s, p) # 0}
    IN  IF starts = {} THEN s
        ELSE LET p == Least(starts)
             IN  SubSeq(s, 1, p - 1)
                 \o RemoveComments(SubSeq(s, CommentMatchEnd(s, p), Len(s)))

\* the backtick; a string of this notation cannot hold the character itself,
\* so the tilde, which the sanitizer treats like any other character,
\* stands for it
Backtick == "~"

\* dangerous_chars without the angle brackets
dangerous_chars_without_angle_brackets ==
    <<Backtick, "*", "_", "[", "]", "(", ")", "!">>

dangerous_chars == <<Backtick, "*", "_", "[", "]", "(", ")", "!", "<", ">">>

\* text.replace(char, '\\' + char)
RECURSIVE Replace(_, _)
Replace(s, char) ==
    IF Len(s) = 0 THEN ""
    ELSE IF Len(s) = 1 THEN (IF s = char THEN "\\" \o s ELSE s)
    ELSE LET h == Len(s) \div 2
         IN  Replace(SubSeq(s, 1, h), char) \o Replace(SubSeq(s, h + 1, Len(s)), char)

\* the loop over dangerous_chars, from the k-th
RECURSIVE EscapeDangerous(_, _)
EscapeDangerous(s, k) ==
    IF k > Len(dangerous_chars) THEN s
    ELSE IF Contains(s, dangerous_chars[k])
    THEN EscapeDangerous(Replace(s, dangerous_chars[k]), k + 1)
    ELSE EscapeDangerous(s, k + 1)

\* text[:1000] + '...' for a text over the limit
LimitLength(s) ==
    IF Len(s) > MaxFieldChars THEN SubSeq(s, 1, MaxFieldChars) \o "..." ELSE s

\* str.strip()
RECURSIVE StripString(_)
StripString(s) ==
    IF s = "" THEN s
    ELSE IF CharAt(s, 1) \in Whitespace THEN StripString(SubSeq(s, 2, Len(s)))
    ELSE IF CharAt(s, Len(s)) \in Whitespace THEN StripString(SubSeq(s, 1, Len(s) - 1))
    ELSE s

_sanitize_input(text) ==
    IF text = "" THEN text
    ELSE StripString(LimitLength(EscapeDangerous(RemoveComments(RemoveScripts(text)), 1)))

-----------------------------------------------------------------------------
(* _sanitize_input applied to texts put together from markup fragments,    *)
(* and to texts at the length limit.                                       *)

\* most fragments in a text
MaxPieces == 4

\* most fragments after the filler of a long text
MaxTailPieces == 2

\* script tags whole, in capitals with an attribute, and in halves; comment
\* marks whole and in halves; a character to escape; a blank
SanitizerPieces ==
    {"<script>", "</script>", "<SCRIPT x>", "<scr", "ipt>",
     "<!--", "-->", "<!", "--", "*", " "}

TailPieces == {"*", "a", " ", "<script>"}

\* the texts made of up to n of the pieces
RECURSIVE Concatenations(_, _)
Concatenations(pieces, n) ==
    IF n = 0 THEN {""}
    ELSE LET shorter == Concatenations(pieces, n - 1)
         IN  shorter \cup {t \o p : t \in shorter, p \in pieces}

\* n letters 'a'
RECURSIVE Filler(_)
Filler(n) ==
    IF n = 0 THEN ""
    ELSE LET half == Filler(n \div 2)
         IN  half \o half \o (IF n % 2 = 1 THEN "a" ELSE "")

SanitizerTexts ==
    Concatenations(SanitizerPieces, MaxPieces)
    \cup {Filler(MaxFieldChars - 3) \o t : t \in Concatenations(TailPieces, MaxTailPieces)}

InitSanitize ==
    /\ entries = <<>>
    /\ graph = [nodes |-> {}, edges |-> <<>>]
    /\ added = 0
    /\ lexicon = <<>>
    /\ valid_domains = {}
    /\ analysis_results = FreshResults
    /\ fields = [word |-> <<>>]
    /\ pc = "sanitize"
    /\ ran = {}
    /\ raised = {}
    /\ returned_results = <<>>
    /\ \E text \in SanitizerTexts : call = [op |-> "_sanitize_input", text |-> text]

SanitizeInput ==
    /\ pc = "sanitize"
    /\ call' = [op |-> "_sanitize_input", text |-> call.text,
                result |-> _sanitize_input(call.text)]
    /\ pc' = "returned"
    /\ UNCHANGED <<lexicon, valid_domains, analysis_results, fields, ran,
                   raised, returned_results>>
    /\ UNCHANGED <<entries, graph, added>>

SpecSanitize == InitSanitize /\ [][SanitizeInput]_vars

-----------------------------------------------------------------------------

Sanitized == pc = "returned" /\ call.op = "_sanitize_input"

\* the characters with a special meaning in the report
ReportSpecialCharacters == {Backtick, "*", "_", "[", "]", "(", ")", "!", "<", ">"}

(* C22: the output of _sanitize_input never contains '<script>' nor        *)
(* '<!--', and every report-special character in it (backtick, asterisk,   *)
(* underscore, brackets, parentheses, exclamation mark, angle brackets)    *)
(* is immediately preceded by a backslash, also when the text is cut at    *)
(* 1000 characters.                                                        *)
C22_SanitizedOutputIsEscaped ==
    Sanitized =>
        /\ ~Contains(call.result, "<script>")
        /\ ~Contains(call.result, "<!--")
        /\ \A i \in 1..Len(call.result) :
              CharAt(call.result, i) \in ReportSpecialCharacters =>
                  i > 1 /\ CharAt(call.result, i - 1) = "\\"

\* a text over the limit once escaped, cut between a backslash and the
\* character it escapes
C22_Witness ==
    /\ Sanitized
    /\ Len(call.text) <= MaxFieldChars
    /\ Len(call.result) = MaxFieldChars + 3
    /\ StandsAt(call.result, MaxFieldChars - 1, "*\\...")

-----------------------------------------------------------------------------
(* Issue-body parser.  The argument of parse_issue_body is a Python value: *)
(* a str with its text, or a value of another type.                        *)

PyStr(text) == [py_type |-> "str", value |-> text]

PyNone == [py_type |-> "NoneType"]

PyInt == [py_type |-> "int"]

_get_empty_fields ==
    [word |-> "", definition |-> "", domain |-> "", justification |-> ""]

\* the patterns dict: the label each field's pattern starts with
FieldLabel ==
    [word          |-> "### Proposed Word",
     definition    |-> "### Definition",
     domain        |-> "### Semantic Domain",
     justification |-> "### Justification & Etymology"]

Greatest(S) == CHOOSE x \in S : \A y \in S : x >= y

\* the last index of the run of whitespace starting at index a of s (a - 1
\* when the character at a is no whitespace)
WhitespaceRunEnd(s, a) ==
    Least({k \in a..(Len(s) + 1) :
              k = Len(s) + 1 \/ CharAt(s, k) \notin Whitespace}) - 1

NoMatch == [matched |-> FALSE, first |-> 0, last |-> 0]

\* PatternMatchAt with any '### ' heading taken for the label
PatternMatchAtAnyHeading(s, p, label) ==
    IF ~StandsAt(s, p, "### ") THEN NoMatch
    ELSE LET a == Least({k \in p..(Len(s) + 1) :
                            k = Len(s) + 1 \/ CharAt(s, k) = "\n"})
             w == WhitespaceRunEnd(s, a)
             newlines == {n \in a..w : CharAt(s, n) = "\n" /\ n < Len(s)}
         IN  IF newlines = {} THEN NoMatch
             ELSE LET first == Greatest(newlines) + 1
                  IN  [matched |-> TRUE, first |-> first,
                       last |-> Least({e \in first..Len(s) :
                                         e = Len(s) \/ StandsAt(s, e + 1, "\n### ")})]

\* a match of  label\s*\n(.+?)(?=\n### |\Z)  (DOTALL) starting at index p
\* of s, with the first and last index of group 1.  The greedy \s* gives
\* back until \n matches and a character is left for the group, so the
\* newline matched is the last one of the whitespace after the label that
\* is not the last character of s; the lazy group ends at the first place
\* followed by a heading or by the end of s
PatternMatchAt(s, p, label) ==
    IF ~StandsAt(s, p, label) THEN NoMatch
    ELSE LET a == p + Len(label)
             w == WhitespaceRunEnd(s, a)
             newlines == {n \in a..w : CharAt(s, n) = "\n" /\ n < Len(s)}
         IN  IF newlines = {} THEN NoMatch
             ELSE LET first == Greatest(newlines) + 1
                  IN  [matched |-> TRUE, first |-> first,
                       last |-> Least({e \in first..Len(s) :
                                         e = Len(s) \/ StandsAt(s, e + 1, "\n### ")})]

\* re.search(pattern, issue_body, MULTILINE | DOTALL): the leftmost match
SearchPattern(s, label) ==
    LET starts == {p \in 1..Len(s) :
                      CharAt(s, p) = "#" /\ PatternMatchAt(s, p, label).matched}
    IN  IF starts = {} THEN NoMatch ELSE PatternMatchAt(s, Least(starts), label)

\* re.sub(r'^\s*-\s*', '', value, MULTILINE) from index i of s: at the start
\* of a line, whitespace, a hyphen and the whitespace after it are removed
RECURSIVE RemoveListMarkers(_, _)
RemoveListMarkers(s, i) ==
    IF i > Len(s) THEN ""
    ELSE IF /\ i = 1 \/ CharAt(s, i - 1) = "\n"
            /\ StandsAt(s, WhitespaceRunEnd(s, i) + 1, "-")
    THEN RemoveListMarkers(s, WhitespaceRunEnd(s, WhitespaceRunEnd(s, i) + 2) + 1)
    ELSE CharAt(s, i) \o RemoveListMarkers(s, i + 1)

\* re.sub(r'\s+', ' ', value) from index i of s
RECURSIVE CollapseWhitespace(_, _)
CollapseWhitespace(s, i) ==
    IF i > Len(s) THEN ""
    ELSE IF CharAt(s, i) \in Whitespace
    THEN " " \o CollapseWhitespace(s, WhitespaceRunEnd(s, i) + 1)
    ELSE CharAt(s, i) \o CollapseWhitespace(s, i + 1)

\* the body of the loop over the patterns: the value the field ends with
ExtractField(s, label) ==
    LET match == SearchPattern(s, label)
    IN  IF ~match.matched THEN ""
        ELSE _sanitize_input(
                 CollapseWhitespace(
                     RemoveListMarkers(
                         StripString(SubSeq(s, match.first, match.last)), 1), 1))

parse_issue_body(issue_body) ==
    IF issue_body.py_type # "str" THEN _get_empty_fields
    ELSE IF issue_body.value = "" THEN _get_empty_fields
    ELSE [field \in DOMAIN FieldLabel |-> ExtractField(issue_body.value, FieldLabel[field])]

-----------------------------------------------------------------------------
(* parse_issue_body, then analyze_proposal on the fields it returns, as    *)
(* the end-to-end test and main() chain them, for issue bodies of a few    *)
(* lines and for whole issue forms.                                        *)

\* most lines in an issue body
MaxLines == 4

\* an empty line, a blank line, a word, a word with a list marker, the four
\* labels, and another heading
BodyLines ==
    {"", " ", "ta", "- ta", "### Proposed Word", "### Definition",
     "### Semantic Domain", "### Justification & Etymology", "### Other"}

\* the texts of 1..n lines joined by newlines
RECURSIVE LinesJoined(_)
LinesJoined(n) ==
    IF n = 1 THEN BodyLines
    ELSE LinesJoined(n - 1)
         \cup {t \o "\n" \o line : t \in LinesJoined(n - 1), line \in BodyLines}

\* issue forms filled in: in full; with markup, list markers and blanks
\* after the labels; with the definition left blank; with text on the
\* label's line
SampleBodies ==
    {"### Proposed Word\nta\n\n### Definition\nstone\n\n### Semantic Domain\nNature\n\n### Justification & Etymology\nold root",
     "### Proposed Word  \n\n  - t-a  \n### Definition\n<script>x</script>*so*\n### Semantic Domain\n- Emotion\n- Nature\n",
     "### Proposed Word\nta\n### Definition\n\n### Semantic Domain\nEmotion\n### Justification & Etymology\n\n",
     "### Proposed Word ta\n### Definition\nstone"}

IssueBodies ==
    {PyStr(t) : t \in LinesJoined(MaxLines) \cup SampleBodies} \cup {PyNone, PyInt}

InitParse ==
    /\ entries = <<>>
    /\ graph = [nodes |-> {}, edges |-> <<>>]
    /\ added = 0
    /\ lexicon = <<>>
    /\ valid_domains = {}
    /\ analysis_results = FreshResults
    /\ fields = [word |-> <<>>]
    /\ pc = "parse"
    /\ ran = {}
    /\ raised = {}
    /\ returned_results = <<>>
    /\ \E issue_body \in IssueBodies :
          call = [op |-> "parse_issue_body", issue_body |-> issue_body]

ParseIssueBody ==
    /\ pc = "parse"
    /\ call' = [op |-> "parse_issue_body", issue_body |-> call.issue_body,
                fields |-> parse_issue_body(call.issue_body)]
    /\ pc' = "parsed"
    /\ UNCHANGED <<lexicon, valid_domains, analysis_results, fields, ran,
                   raised, returned_results>>
    /\ UNCHANGED <<entries, graph, added>>

\* a parsed string as the analyzer's state holds texts: the word as its
\* characters, another field as one chunk
Characters(s) == [i \in 1..Len(s) |-> CharAt(s, i)]

Chunk(s) == IF s = "" THEN <<>> ELSE <<s>>

ParsedFields(parsed) ==
    [word          |-> Characters(parsed.word),
     definition    |-> Chunk(parsed.definition),
     domain        |-> Chunk(parsed.domain),
     justification |-> Chunk(parsed.justification)]

\* analyze_proposal called with the parsed fields, up to the gate
AnalyzeParsedProposal ==
    /\ pc = "parsed"
    /\ LET f == ParsedFields(call.fields)
       IN  /\ fields' = f
           /\ IF GateError(f) # ""
              THEN /\ analysis_results' =
                         _set_critical_error(Msg("ERROR", GateError(f), <<>>))
                   /\ pc' = "returned"
              ELSE /\ analysis_results' = analysis_results
                   /\ pc' = "phonotactics"
    /\ ran' = {}
    /\ raised' = {}
    /\ UNCHANGED <<lexicon, valid_domains, returned_results, call>>
    /\ UNCHANGED <<entries, graph, added>>

NextParse ==
    \/ ParseIssueBody
    \/ AnalyzeParsedProposal
    \/ CheckPhonotactics
    \/ CheckLexicon
    \/ CheckHomophones
    \/ CheckSemantics
    \/ GenerateRecommendation

SpecParse == InitParse /\ [][NextParse]_vars

-----------------------------------------------------------------------------

\* parse_issue_body has returned
Parsed == call.op = "parse_issue_body" /\ pc # "parse"

\* the text is empty, no string, or holds none of the four labels
BodyWithoutSections ==
    IF call.issue_body.py_type # "str" THEN TRUE
    ELSE \/ call.issue_body.value = ""
         \/ \A field \in DOMAIN FieldLabel :
                ~Contains(call.issue_body.value, FieldLabel[field])

(* C21: for a text that is empty, not a string, or holds none of the four  *)
(* section labels, parse_issue_body returns all four fields empty, and     *)
(* analyze_proposal on those fields ends with recommendation Error and     *)
(* all four checks in Error.                                               *)
C21_NoSectionsGiveEmptyFieldsAndError ==
    (Parsed /\ BodyWithoutSections) =>
        /\ \A field \in DOMAIN FieldLabel : call.fields[field] = ""
        /\ pc # "parsed" =>
              /\ Returned
              /\ Recommendation = "ERROR"
              /\ \A sec \in SectionSet : Status(sec) = "ERROR"

\* a text with a heading and a word under it, but none of the labels
C21_Witness ==
    /\ Parsed
    /\ call.issue_body = PyStr("### Other\nta")
    /\ Returned
    /\ Recommendation = "ERROR"

-----------------------------------------------------------------------------

\* the label of the field is in the text, nothing but whitespace follows it
\* up to the next heading, and a next heading there is
BlankSectionBeforeAnother(field) ==
    /\ call.issue_body.py_type = "str"
    /\ LET text == call.issue_body.value
           p == IndexOf(text, FieldLabel[field], 1)
           h == IndexOf(text, "\n### ", p + Len(FieldLabel[field]))
       IN  /\ p # 0
           /\ h # 0
           /\ \A i \in (p + Len(FieldLabel[field]))..(h - 1) :
                  CharAt(text, i) \in Whitespace

(* C30: each field returned by parse_issue_body holds only text of its own *)
(* section: when the section's label is present, its body is blank and     *)
(* another section follows, the field is the empty string, and holds       *)
(* neither the label nor the body of the following section.                *)
C30_BlankSectionGivesEmptyField ==
    Parsed =>
        \A field \in DOMAIN FieldLabel :
            BlankSectionBeforeAnother(field) =>
                /\ call.fields[field] = ""
                /\ ~Contains(call.fields[field], "###")

-----------------------------------------------------------------------------
(* Lexicon schema (lexicon_system/schema.py).  Words and texts are         *)
(* strings.  A LexiconEntry is a record of its fields; roots None is the   *)
(* empty sequence (the code only tests roots for truth) and                *)
(* etymology_note None the empty string (a note is never empty).           *)

ROOT == "Root"

COMPOUND == "Compound"

\* LexiconEntry(...) with derived_words left to its default, a new set
NewEntry(w, pronunciation, meaning, dom, pos_type, word_type, roots, note) ==
    [word |-> w, pronunciation |-> pronunciation,
     definition |-> meaning, domain |-> dom,
     pos_type |-> pos_type, word_type |-> word_type,
     roots |-> roots, derived_words |-> {}, etymology_note |-> note]

\* __post_init__ raises ValueError
PostInitRaises(word_type, roots) ==
    \/ word_type = COMPOUND /\ roots = <<>>
    \/ word_type = ROOT /\ roots # <<>>

\* entry.to_dict(), the derived words listed in the given order
to_dict(entry, derived_order) ==
    [word |-> entry.word, pronunciation |-> entry.pronunciation,
     definition |-> entry.definition, domain |-> entry.domain,
     pos_type |-> entry.pos_type, word_type |-> entry.word_type,
     roots |-> entry.roots, derived_words |-> derived_order,
     etymology_note |-> entry.etymology_note]

\* word.split('-')
RECURSIVE SplitOnHyphen(_)
SplitOnHyphen(s) ==
    LET q == IndexOf(s, "-", 1)
    IN  IF q = 0 THEN <<s>>
        ELSE <<SubSeq(s, 1, q - 1)>> \o SplitOnHyphen(SubSeq(s, q + 1, Len(s)))

\* the root components of a word with a hyphen, the empty sequence (None)
\* for a word without
detect_compound_structure(w) ==
    IF Contains(w, "-") THEN SplitOnHyphen(w) ELSE <<>>

\* a match of \((?:compound|idiom):[^)]+\) starting at index p of the
\* meaning: the index of the closing parenthesis, or 0
EtymologyClose(meaning, p) ==
    LET a == IF StandsAt(meaning, p, "(compound:") THEN p + 10
             ELSE IF StandsAt(meaning, p, "(idiom:") THEN p + 7
             ELSE 0
        c == IF a = 0 THEN 0 ELSE IndexOf(meaning, ")", a)
    IN  IF c > a THEN c ELSE 0

\* the index after the opening '(compound:' or '(idiom:' at p
EtymologyOpenEnd(meaning, p) ==
    IF StandsAt(meaning, p, "(compound:") THEN p + 10 ELSE p + 7

\* re.search(r'\((?:compound|idiom):\s*([^)]+)\)', meaning): group 1 of the
\* leftmost match, or "" (None) when there is no match.  The greedy \s*
\* leaves at least one character to the group
EtymologyNote(meaning) ==
    LET starts == {p \in 1..Len(meaning) : EtymologyClose(meaning, p) # 0}
    IN  IF starts = {} THEN ""
        ELSE LET p == Least(starts)
                 c == EtymologyClose(meaning, p)
                 w == WhitespaceRunEnd(meaning, EtymologyOpenEnd(meaning, p))
             IN  SubSeq(meaning, IF w + 1 <= c - 1 THEN w + 1 ELSE c - 1, c - 1)

\* re.sub(r'\s*\((?:compound|idiom):[^)]+\)', '', meaning) from index i
RECURSIVE RemoveEtymology(_, _)
RemoveEtymology(meaning, i) ==
    IF i > Len(meaning) THEN ""
    ELSE LET c == EtymologyClose(meaning, WhitespaceRunEnd(meaning, i) + 1)
         IN  IF c # 0 THEN RemoveEtymology(meaning, c + 1)
             ELSE CharAt(meaning, i) \o RemoveEtymology(meaning, i + 1)

\* the keys migrate_legacy_entry reads
LegacyKeys == {"word", "meaning", "pronunciation", "domain", "type"}

\* migrate_legacy_entry(legacy_data): the entry, or raised when a key it
\* reads is missing (KeyError)
migrate_legacy_entry(legacy_data) ==
    IF ~(LegacyKeys \subseteq DOMAIN legacy_data) THEN [raised |-> TRUE]
    ELSE LET compound_roots == detect_compound_structure(legacy_data["word"])
             meaning == legacy_data["meaning"]
         IN  IF compound_roots # <<>>
             THEN [raised |-> FALSE,
                   entry |-> NewEntry(legacy_data["word"], legacy_data["pronunciation"],
                                      StripString(RemoveEtymology(meaning, 1)),
                                      legacy_data["domain"], legacy_data["type"],
                                      COMPOUND, compound_roots,
                                      EtymologyNote(meaning))]
             ELSE [raised |-> FALSE,
                   entry |-> NewEntry(legacy_data["word"], legacy_data["pronunciation"], meaning,
                                      legacy_data["domain"], legacy_data["type"],
                                      ROOT, <<>>, "")]

-----------------------------------------------------------------------------
(* Lexicon graph manager (lexicon_system/lexicon.py).  A FidakuneLexicon   *)
(* is its entries dict and its DiGraph; the graph is its set of nodes and  *)
(* its edges in the order they were first added, which is the order        *)
(* predecessors() yields them in.                                          *)

\* FidakuneLexicon()
NewLexicon == [entries |-> <<>>, graph |-> [nodes |-> {}, edges |-> <<>>]]

\* d[key] = value
DictPut(d, key, value) ==
    [k \in DOMAIN d \cup {key} |-> IF k = key THEN value ELSE d[k]]

\* graph.add_node(n)
add_node(g, n) == [nodes |-> g.nodes \cup {n}, edges |-> g.edges]

\* graph.add_edge(u, v, relationship=...): a new edge, or the attribute of
\* the edge already there overwritten
add_edge(g, u, v, relationship) ==
    [nodes |-> g.nodes \cup {u, v},
     edges |-> IF \E i \in DOMAIN g.edges : g.edges[i].u = u /\ g.edges[i].v = v
               THEN [i \in DOMAIN g.edges |->
                        IF g.edges[i].u = u /\ g.edges[i].v = v
                        THEN [u |-> u, v |-> v, relationship |-> relationship]
                        ELSE g.edges[i]]
               ELSE Append(g.edges, [u |-> u, v |-> v, relationship |-> relationship])]

\* the loop of add_entry over entry.roots, from the k-th root
RECURSIVE LinkRoots(_, _, _)
LinkRoots(lex, entry, k) ==
    IF k > Len(entry.roots) THEN lex
    ELSE LET root == entry.roots[k]
         IN  LinkRoots(
                 [entries |->
                     IF root \in DOMAIN lex.entries
                     THEN [lex.entries EXCEPT
                              ![root].derived_words = @ \cup {entry.word}]
                     ELSE lex.entries,
                  graph |->
                     add_edge(add_edge(lex.graph, entry.word, root, "derives_from"),
                              root, entry.word, "derives_to")],
                 entry, k + 1)

\* the lexicon add_entry(entry) leaves
add_entry(lex, entry) ==
    LET stored == [entries |-> DictPut(lex.entries, entry.word, entry),
                   graph |-> add_node(lex.graph, entry.word)]
    IN  IF entry.word_type = COMPOUND /\ entry.roots # <<>>
        THEN LinkRoots(stored, entry, 1)
        ELSE stored

get_roots(lex, compound_word) ==
    IF compound_word \in DOMAIN lex.entries
       /\ lex.entries[compound_word].word_type = COMPOUND
    THEN lex.entries[compound_word].roots
    ELSE <<>>

get_derived_words(lex, root_word) ==
    IF root_word \in DOMAIN lex.entries
    THEN lex.entries[root_word].derived_words
    ELSE {}

\* the default of get_compound_chain's max_depth
max_depth == 3

\* list(graph.predecessors(n))
GraphPredecessors(g, n) ==
    LET into == SelectSeq(g.edges, LAMBDA e : e.v = n)
    IN  [i \in DOMAIN into |-> into[i].u]

\* graph[u][v].get('relationship')
EdgeRelationship(g, u, v) ==
    (CHOOSE e \in ToSet(g.edges) : e.u = u /\ e.v = v).relationship

\* dfs_paths of get_compound_chain: the paths it appends, in order
RECURSIVE dfs_paths(_, _, _, _)
RECURSIVE DfsOverPredecessors(_, _, _, _, _)
dfs_paths(g, current_word, path, depth) ==
    IF depth >= max_depth THEN <<>>
    ELSE LET predecessors ==
                 SelectSeq(GraphPredecessors(g, current_word),
                           LAMBDA n : EdgeRelationship(g, current_word, n) = "derives_from")
         IN  IF predecessors = <<>> THEN <<path \o <<current_word>>>>
             ELSE DfsOverPredecessors(g, predecessors, 1,
                                      path \o <<current_word>>, depth + 1)

DfsOverPredecessors(g, predecessors, k, path, depth) ==
    IF k > Len(predecessors) THEN <<>>
    ELSE dfs_paths(g, predecessors[k], path, depth)
         \o DfsOverPredecessors(g, predecessors, k + 1, path, depth)

get_compound_chain(lex, w) == dfs_paths(lex.graph, w, <<>>, 0)

\* a < b for strings of lower-case letters and hyphens
RECURSIVE StringLess(_, _)
StringLess(a, b) ==
    IF b = "" THEN FALSE
    ELSE IF a = "" THEN TRUE
    ELSE IF CharAt(a, 1) = CharAt(b, 1)
    THEN StringLess(SubSeq(a, 2, Len(a)), SubSeq(b, 2, Len(b)))
    ELSE \/ CharAt(a, 1) = "-"
         \/ CharAt(b, 1) # "-" /\ LetterIndex(CharAt(a, 1)) < LetterIndex(CharAt(b, 1))

\* sorted(S) for a set of words
RECURSIVE SortedWords(_)
SortedWords(S) ==
    IF S = {} THEN <<>>
    ELSE LET m == CHOOSE a \in S : \A b \in S \ {a} : StringLess(a, b)
         IN  <<m>> \o SortedWords(S \ {m})

\* the lists save_to_json can write: the entries as dicts in the order of
\* their words, each set of derived words listed in one of its orders
save_to_json(lex) ==
    LET words == SortedWords(DOMAIN lex.entries)
        orders == {o \in [DOMAIN lex.entries ->
                            UNION {SetOrders(lex.entries[w].derived_words)
                                   : w \in DOMAIN lex.entries}] :
                      \A w \in DOMAIN lex.entries :
                          o[w] \in SetOrders(lex.entries[w].derived_words)}
    IN  {[i \in DOMAIN words |-> to_dict(lex.entries[words[i]], o[words[i]])]
         : o \in orders}

\* the loop of load_from_legacy_json over the items, from the k-th: an item
\* migrate_legacy_entry fails on is skipped with a warning
RECURSIVE LoadItems(_, _, _)
LoadItems(lex, legacy_data, k) ==
    IF k > Len(legacy_data) THEN lex
    ELSE LET migrated == migrate_legacy_entry(legacy_data[k])
         IN  IF migrated.raised THEN LoadItems(lex, legacy_data, k + 1)
             ELSE LoadItems(add_entry(lex, migrated.entry), legacy_data, k + 1)

\* the lexicon load_from_legacy_json leaves (_validate_root_references
\* only prints)
load_from_legacy_json(lex, legacy_data) == LoadItems(lex, legacy_data, 1)

-----------------------------------------------------------------------------
(* A FidakuneLexicon given entries one by one or from a legacy file, asked *)
(* for derivation chains, saved and loaded again into a new lexicon, as    *)
(* test_lexicon_system does.                                               *)

\* most entries handed to the lexicon
MaxAdds == 4

SampleEntry(w, word_type, roots) ==
    NewEntry(w, "p", "d", "Nature", "noun", word_type, roots, "")

\* the entries of the tests, the compound with another list of roots and as
\* a root, and a root turned into a compound of the other root
EntryInputs ==
    {e \in {SampleEntry("sole", ROOT, <<>>),
            SampleEntry("lum", ROOT, <<>>),
            SampleEntry("sole-lum", COMPOUND, <<"sole", "lum">>),
            SampleEntry("sole-lum", COMPOUND, <<"lum">>),
            SampleEntry("sole-lum", ROOT, <<>>),
            SampleEntry("lum", COMPOUND, <<"sole">>)} :
        ~PostInitRaises(e.word_type, e.roots)}

LegacyItem(w, meaning) ==
    [word |-> w, meaning |-> meaning, pronunciation |-> "p",
     domain |-> "Nature", type |-> "noun"]

\* legacy files: the roots before their compound; the compound before its
\* roots; an item without the meaning key
LegacyFiles ==
    { <<LegacyItem("sole", "sun"), LegacyItem("lum", "light"),
        LegacyItem("sole-lum", "hope (compound: sun-light)")>>,
      <<LegacyItem("sole-lum", "hope  (idiom: ) (of dawn)"), LegacyItem("sole", "sun")>>,
      <<[word |-> "lum", definition |-> "light", pronunciation |-> "p",
         domain |-> "Nature", type |-> "noun"],
        LegacyItem("sole", "sun (compound: none)")>> }

\* the lexicon the state holds
Lexicon == [entries |-> entries, graph |-> graph]

InitLexicon ==
    /\ entries = NewLexicon.entries
    /\ graph = NewLexicon.graph
    /\ added = 0
    /\ lexicon = <<>>
    /\ valid_domains = {}
    /\ analysis_results = FreshResults
    /\ fields = [word |-> <<>>]
    /\ pc = "lexicon_system"
    /\ ran = {}
    /\ raised = {}
    /\ returned_results = <<>>
    /\ call = NoCall

AddEntry ==
    /\ pc = "lexicon_system"
    /\ added < MaxAdds
    /\ \E entry \in EntryInputs :
          /\ entries' = add_entry(Lexicon, entry).entries
          /\ graph' = add_entry(Lexicon, entry).graph
    /\ added' = added + 1
    /\ call' = NoCall
    /\ UNCHANGED <<lexicon, valid_domains, analysis_results, fields, pc, ran,
                   raised, returned_results>>

LoadFromLegacyJson ==
    /\ pc = "lexicon_system"
    /\ \E legacy_data \in LegacyFiles :
          /\ added + Len(legacy_data) <= MaxAdds
          /\ entries' = load_from_legacy_json(Lexicon, legacy_data).entries
          /\ graph' = load_from_legacy_json(Lexicon, legacy_data).graph
          /\ added' = added + Len(legacy_data)
    /\ call' = NoCall
    /\ UNCHANGED <<lexicon, valid_domains, analysis_results, fields, pc, ran,
                   raised, returned_results>>

GetCompoundChain ==
    /\ pc = "lexicon_system"
    /\ \E w \in DOMAIN entries :
          call' = [op |-> "get_compound_chain", word |-> w,
                   chains |-> get_compound_chain(Lexicon, w)]
    /\ UNCHANGED <<lexicon, valid_domains, analysis_results, fields, pc, ran,
                   raised, returned_results, entries, graph, added>>

SaveToJson ==
    /\ pc = "lexicon_system"
    /\ \E data \in save_to_json(Lexicon) :
          call' = [op |-> "save_to_json", data |-> data]
    /\ UNCHANGED <<lexicon, valid_domains, analysis_results, fields, pc, ran,
                   raised, returned_results, entries, graph, added>>

\* the file just saved is loaded into a new FidakuneLexicon
LoadSavedJson ==
    /\ pc = "lexicon_system"
    /\ call.op = "save_to_json"
    /\ call' = [op |-> "load_from_legacy_json", data |-> call.data,
                new_lexicon |-> load_from_legacy_json(NewLexicon, call.data)]
    /\ UNCHANGED <<lexicon, valid_domains, analysis_results, fields, pc, ran,
                   raised, returned_results, entries, graph, added>>

NextLexicon ==
    \/ AddEntry
    \/ LoadFromLegacyJson
    \/ GetCompoundChain
    \/ SaveToJson
    \/ LoadSavedJson

SpecLexicon == InitLexicon /\ [][NextLexicon]_vars

-----------------------------------------------------------------------------

\* the compound entries of the lexicon
CompoundEntries == {c \in DOMAIN entries : entries[c].word_type = COMPOUND}

(* C23: after any sequence of add_entry calls, in any order of roots and   *)
(* compounds, every compound entry c is a member of get_derived_words(r)   *)
(* for every root r of c that is itself an entry.                          *)
C23_CompoundsAreDerivedWordsOfTheirRoots ==
    \A c \in CompoundEntries :
        \A r \in ToSet(entries[c].roots) \cap DOMAIN entries :
            c \in get_derived_words(Lexicon, r)

-----------------------------------------------------------------------------

(* C24: after any sequence of add_entry calls, also ones that add a word   *)
(* again with other roots or another word type, every word in              *)
(* get_derived_words(r) is a compound entry whose roots contain r.         *)
C24_DerivedWordsAreCompoundsOfTheRoot ==
    \A r \in DOMAIN entries :
        \A d \in get_derived_words(Lexicon, r) :
            /\ d \in CompoundEntries
            /\ r \in ToSet(entries[d].roots)

-----------------------------------------------------------------------------

(* C25: for a compound word w whose roots are in the lexicon,              *)
(* get_compound_chain(w) returns at least one chain, and every chain       *)
(* returned has w as its last element.                                     *)
C25_ChainsEndWithTheCompound ==
    (/\ call.op = "get_compound_chain"
     /\ call.word \in CompoundEntries
     /\ ToSet(entries[call.word].roots) \subseteq DOMAIN entries) =>
        /\ call.chains # <<>>
        /\ \A i \in DOMAIN call.chains :
              call.chains[i][Len(call.chains[i])] = call.word

-----------------------------------------------------------------------------

(* C26: saving the lexicon with save_to_json and loading the file into a   *)
(* new FidakuneLexicon with load_from_legacy_json preserves the data:      *)
(* every saved word is an entry of the new lexicon, every compound has the *)
(* same ordered roots, and is in the derived words of each of its roots.   *)
C26_SaveAndLoadPreservesTheLexicon ==
    call.op = "load_from_legacy_json" =>
        \A w \in DOMAIN entries :
            /\ w \in DOMAIN call.new_lexicon.entries
            /\ w \in CompoundEntries =>
                  /\ get_roots(call.new_lexicon, w) = entries[w].roots
                  /\ \A r \in ToSet(entries[w].roots) :
                        w \in get_derived_words(call.new_lexicon, r)

=============================================================================
